---- MODULE Spec2Model ----
(***************************************************************************)
(* A model of the NGED substation-flow ingestion code:                     *)
(*   - SubstationFlows.validate             (contracts/data_schemas.py)    *)
(*   - read_primary_substation_csv, download_live_primary_data,            *)
(*     download_substation_locations        (data_nged/live_primary_data)  *)
(*   - get_primary_substation_locations, find_one_match (nged_data)        *)
(*   - _download_raw_csvs_for_region, _process_region_from_disk,           *)
(*     nged_live_primary_data               (defs/nged_assets.py)          *)
(*                                                                         *)
(* A dataframe is a record [cols, rows]: cols is the sequence of column    *)
(* names, rows the sequence of rows.  A cell is a set with at most one     *)
(* element: {} is a null (or a column the frame does not have), {v} the    *)
(* value v.  Each part of the program has its own specification over its   *)
(* own variables; the other variables then keep their initial value.       *)
(***************************************************************************)
EXTENDS Integers, Sequences, FiniteSets, TLC

VARIABLES
    \* SubstationFlows.validate
    vDf, vAllowMissing, vResult,
    \* one region (package): the download to disk, the processing from disk,
    \* and the streaming download
    bMode, bResources, bDisk, bPc,
    dlList, dlIdx, dlAttempted,
    csv_files, prIdx, dfs, all_errors, total_count, yielded, bOutput,
    stIdx, stFetched, stResults,
    \* the loading of the location catalog
    cMode, cCandidates, cPc, cIdx, cMatch, cResult,
    \* nged_live_primary_data and the persisted dataset
    store, oldStore, newFrames, mOutcome,
    \* merges of record sets A, B, C
    aA, aB, aC, aPc, aAA, aAB, aBA, aLeft, aRight,
    \* two runs of nged_live_primary_data at once
    wStore, wPc, wDf, wTodo,
    \* simplify_substation_name on a label and on its own output
    sLabel, sPc, sOnce, sTwice, fOnce, fTwice,
    \* join_location_table_to_live_primaries
    live_primaries, locations, name_mapping, rPc,
    live_primaries_df, rLocations, rLinks, rRaised,
    \* one CSV file read by one of the two readers
    nCsv, nLabel, nReader, nPc, nResult, nUnits,
    \* one call of check_integrity
    iDf, iTsKind, iNow, iMaxAge, iPc, iErrors, iRaised

vVars == <<vDf, vAllowMissing, vResult>>

bVars == <<bMode, bResources, bDisk, bPc, dlList, dlIdx, dlAttempted,
           csv_files, prIdx, dfs, all_errors, total_count, yielded, bOutput,
           stIdx, stFetched, stResults>>

cVars == <<cMode, cCandidates, cPc, cIdx, cMatch, cResult>>

mVars == <<store, oldStore, newFrames, mOutcome>>
aVars == <<aA, aB, aC, aPc, aAA, aAB, aBA, aLeft, aRight>>
wVars == <<wStore, wPc, wDf, wTodo>>
sVars == <<sLabel, sPc, sOnce, sTwice, fOnce, fTwice>>

\* the parts added after the first six
rVars == <<live_primaries, locations, name_mapping, rPc,
           live_primaries_df, rLocations, rLinks, rRaised>>
nVars == <<nCsv, nLabel, nReader, nPc, nResult, nUnits>>
iVars == <<iDf, iTsKind, iNow, iMaxAge, iPc, iErrors, iRaised>>
laterVars == <<sVars, rVars, nVars, iVars>>

vars == <<vVars, bVars, cVars, mVars, aVars, wVars, laterVars>>

\* what the actions of one part leave alone
notV == <<bVars, cVars, mVars, aVars, wVars, laterVars>>
notB == <<vVars, cVars, mVars, aVars, wVars, laterVars>>
notC == <<vVars, bVars, mVars, aVars, wVars, laterVars>>
notM == <<vVars, bVars, cVars, aVars, wVars, laterVars>>
notA == <<vVars, bVars, cVars, mVars, wVars, laterVars>>
notW == <<vVars, bVars, cVars, mVars, aVars, laterVars>>
firstVars == <<vVars, bVars, cVars, mVars, aVars, wVars>>
notS == <<firstVars, rVars, nVars, iVars>>
notR == <<firstVars, sVars, nVars, iVars>>
notN == <<firstVars, sVars, rVars, iVars>>
notI == <<firstVars, sVars, rVars, nVars>>

(***************************************************************************)
(* Bounds of the model                                                     *)
(***************************************************************************)
\* the most rows of a dataframe handed to validate
MaxVRows == 1
\* the most resources of a package
MaxResources == 2
\* the most resources the portal lists for the location catalog
MaxCandidates == 2
\* the latest timestamp of a row
MaxTime == 3
\* the most rows the four region frames of one materialisation hold in all
MaxNewRows == 2
\* the most rows of a record set A, B or C
MaxSetRows == 1
\* the most rows the region frames of one of two runs at once hold in all
MaxWriterRows == 1
\* the most parts a label is put together from
MaxWords == 4
\* the most resources in the list of live primaries
MaxFlows == 2
\* the most rows of the location table
MaxEntries == 2
\* the most rows of the join of the resources with the locations
MaxLinks == 4
\* the most rows of a CSV file given to a reader
MaxCsvRows == 2
\* the most rows of a batch given to check_integrity
MaxBatchRows == 2

(***************************************************************************)
(* Dataframes                                                              *)
(***************************************************************************)
NULL == {}

PowerCols == {"MW", "MVA", "MVAr"}

\* SubstationFlows.columns, in the order the fields are declared
SchemaCols == <<"substation_name", "timestamp", "MW", "MVA", "MVAr">>

\* pl.DataFrame(schema=SubstationFlows.dtypes): every column, no row
EmptyFrame == [cols |-> SchemaCols, rows |-> <<>>]

SeqToSet(s) == {s[i] : i \in DOMAIN s}

ColSet(df) == SeqToSet(df.cols)

\* the columns of set S, in the order of sequence order
InOrder(order, S) == SelectSeq(order, LAMBDA c : c \in S)

Cell(row, col) ==
    CASE col = "substation_name" -> row.substation_name
      [] col = "timestamp" -> row.timestamp
      [] col = "MW" -> row.MW
      [] col = "MVA" -> row.MVA
      [] col = "MVAr" -> row.MVAr
      [] OTHER -> NULL

(***************************************************************************)
(* SubstationFlows: the schema and validate                                *)
(***************************************************************************)
\* ge=-1_000, le=1_000 of the three power fields
PowerMin == -1000
PowerMax == 1000

\* the fields declared without allow_missing=True
RequiredCols == {"substation_name", "timestamp"}

\* a mutant of SchemaViolations: le=1_000 is not checked
SchemaViolations_no_le(dataframe, allow_missing_columns) ==
    LET cols == ColSet(dataframe)
        rowsOf == SeqToSet(dataframe.rows)
        missing == IF allow_missing_columns THEN {} ELSE RequiredCols \ cols
        superfluous == cols \ SeqToSet(SchemaCols)
        nulls == {c \in RequiredCols \cap cols :
                     \E r \in rowsOf : Cell(r, c) = NULL}
        range == {c \in PowerCols \cap cols :
                     \E r \in rowsOf : \E x \in Cell(r, c) : x < PowerMin}
    IN  missing \cup superfluous \cup nulls \cup range

\* pt.Model.validate on the SubstationFlows fields: the name of every column
\* the schema checks reject.  allow_superfluous_columns and
\* drop_superfluous_columns keep their default (False) at every call.
SchemaViolations(dataframe, allow_missing_columns) ==
    LET cols == ColSet(dataframe)
        rowsOf == SeqToSet(dataframe.rows)
        missing == IF allow_missing_columns THEN {} ELSE RequiredCols \ cols
        superfluous == cols \ SeqToSet(SchemaCols)
        nulls == {c \in RequiredCols \cap cols :
                     \E r \in rowsOf : Cell(r, c) = NULL}
        range == {c \in PowerCols \cap cols :
                     \E r \in rowsOf : \E x \in Cell(r, c) :
                         x < PowerMin \/ x > PowerMax}
    IN  missing \cup superfluous \cup nulls \cup range

\* a mutant of validate: only MW is looked for
validate_only_MW(dataframe, allow_missing_columns) ==
    IF "MW" \notin ColSet(dataframe)
    THEN "ValueError"
    ELSE IF SchemaViolations(dataframe, allow_missing_columns) = {}
         THEN "ok"
         ELSE "DataFrameValidationError"

\* SubstationFlows.validate: "ok" when the dataframe is returned, the
\* exception otherwise
validate(dataframe, allow_missing_columns) ==
    IF "MW" \notin ColSet(dataframe) /\ "MVA" \notin ColSet(dataframe)
    THEN "ValueError"
    ELSE IF SchemaViolations(dataframe, allow_missing_columns) = {}
         THEN "ok"
         ELSE "DataFrameValidationError"

(***************************************************************************)
(* Specification of validate: a dataframe is drawn, then validated         *)
(***************************************************************************)
VPowerVals == {-1001, -1000, 1000, 1001}

VCells == {NULL} \cup {{x} : x \in VPowerVals}

\* the rows a dataframe with the power columns P can hold
VRows(P) ==
    {[substation_name |-> {"a"}, timestamp |-> {1},
      MW |-> mw, MVA |-> mva, MVAr |-> mvar] :
        mw \in (IF "MW" \in P THEN VCells ELSE {NULL}),
        mva \in (IF "MVA" \in P THEN VCells ELSE {NULL}),
        mvar \in (IF "MVAr" \in P THEN VCells ELSE {NULL})}

SeqsUpTo(S, n) == UNION {[1..k -> S] : k \in 0..n}

\* the dataframes validate is called on: any of the schema's columns, with
\* or without a column the schema does not have
VStart ==
    /\ \E R \in SUBSET RequiredCols, P \in SUBSET PowerCols, extra \in {<<>>, <<"Volts">>} :
          \E rs \in SeqsUpTo(VRows(P), MaxVRows) :
              vDf = [cols |-> InOrder(SchemaCols, R \cup P) \o extra, rows |-> rs]
    /\ vAllowMissing = FALSE
    /\ vResult = "none"

VIdle ==
    /\ vDf = EmptyFrame
    /\ vAllowMissing = FALSE
    /\ vResult = "none"

Validate(am) ==
    /\ vResult = "none"
    /\ vAllowMissing' = am
    /\ vResult' = validate(vDf, am)
    /\ UNCHANGED <<notV, vDf>>

(***************************************************************************)
(* CSV files and read_primary_substation_csv                               *)
(*                                                                         *)
(* A CSV file is a record [header, rows]; a CSV row is [time, unit, v]:    *)
(* time is the text of the row's date/time column, <<t>> when it parses to *)
(* the instant t and <<>> when it does not parse; unit is the text of the  *)
(* unit column (long layout), "" when the cell is empty or the file has no *)
(* unit column; v is the number every numeric column of the row holds.     *)
(***************************************************************************)
HasDuplicates(s) == \E i, j \in DOMAIN s : i # j /\ s[i] = s[j]

\* df.rename(mapping, strict=False) on the column names
Rename(cols, from, to) == [i \in DOMAIN cols |-> IF cols[i] = from THEN to ELSE cols[i]]

\* df.with_columns(substation_name=...): replaces the column or appends it
WithSubstationName(cols) ==
    IF "substation_name" \in SeqToSet(cols) THEN cols ELSE Append(cols, "substation_name")

\* the renames of the long layout (unit, value)
RenameLong(cols, unit) == Rename(Rename(cols, "time", "timestamp"), "value", unit)

\* the wide layouts with no header renamed
RenameWide_none(cols) == cols

\* the renames of the wide layouts
RenameWide(cols) ==
    Rename(Rename(Rename(Rename(cols, "ValueDate", "timestamp"),
                         "MW Inst", "MW"), "MVAr Inst", "MVAr"), "Derived MVA", "MVA")

Failure(err) == [ok |-> FALSE, df |-> EmptyFrame, err |-> err]

\* the row of the dataframe for a CSV row, given the canonical columns kept
FlowRow(csvRow, kept, substation_name) ==
    [substation_name |-> {substation_name},
     timestamp |-> {csvRow.time[1]},
     MW |-> IF "MW" \in kept THEN {csvRow.v} ELSE NULL,
     MVA |-> IF "MVA" \in kept THEN {csvRow.v} ELSE NULL,
     MVAr |-> IF "MVAr" \in kept THEN {csvRow.v} ELSE NULL]

\* read_primary_substation_csv: [ok, df, err].  The columns kept come out of
\* a Python set, whose order the code does not fix; the model lists them in
\* schema order.
read_primary_substation_csv(csv, substation_name) ==
    LET cols0 == WithSubstationName(csv.header)
        isLong == "unit" \in SeqToSet(cols0) /\ "value" \in SeqToSet(cols0)
        allMVA == \A i \in DOMAIN csv.rows : csv.rows[i].unit \in {"MVA", ""}
        allMW == \A i \in DOMAIN csv.rows : csv.rows[i].unit \in {"MW", ""}
        cols1 == IF ~isLong THEN cols0
                 ELSE IF allMVA THEN RenameLong(cols0, "MVA")
                 ELSE RenameLong(cols0, "MW")
        cols2 == RenameWide(cols1)
        kept == SeqToSet(SchemaCols) \cap SeqToSet(cols2)
        df == [cols |-> InOrder(SchemaCols, kept),
               rows |-> [i \in DOMAIN csv.rows |->
                            FlowRow(csv.rows[i], kept, substation_name)]]
    IN  IF csv.header = <<>> THEN Failure("NoDataError: empty CSV")
        ELSE IF isLong /\ ~allMVA /\ ~allMW THEN Failure("ValueError: Unexpected unit in CSV")
        ELSE IF HasDuplicates(cols1) \/ HasDuplicates(cols2) THEN Failure("DuplicateError")
        ELSE IF "timestamp" \notin SeqToSet(cols2) THEN Failure("ColumnNotFoundError: timestamp")
        ELSE IF \E i \in DOMAIN csv.rows : csv.rows[i].time = <<>>
             THEN Failure("ComputeError: strptime")
        ELSE IF validate(df, TRUE) # "ok" THEN Failure(validate(df, TRUE))
        ELSE [ok |-> TRUE, df |-> df, err |-> ""]

\* pl.concat(dfs, how="diagonal"): the union of the columns, nulls where a
\* frame lacks a column (the rows of the model hold NULL there already)
RECURSIVE ConcatDiagonal(_)
ConcatDiagonal(frames) ==
    IF frames = <<>> THEN [cols |-> <<>>, rows |-> <<>>]
    ELSE IF Len(frames) = 1 THEN frames[1]
    ELSE LET rest == ConcatDiagonal(SubSeq(frames, 1, Len(frames) - 1))
             last == frames[Len(frames)]
         IN  [cols |-> rest.cols \o
                       SelectSeq(last.cols, LAMBDA c : c \notin SeqToSet(rest.cols)),
              rows |-> rest.rows \o last.rows]

(***************************************************************************)
(* One region: _download_raw_csvs_for_region, _process_region_from_disk    *)
(* and download_live_primary_data                                          *)
(*                                                                         *)
(* bMode says which of the two pipelines runs: "disk" (download the raw    *)
(* CSVs to disk, then process them from disk) or "stream"                  *)
(* (download_live_primary_data).  The CKAN client (get_package_show,       *)
(* download_resource, session.get) is the retrieval collaborator: each     *)
(* call either returns or raises.                                          *)
(***************************************************************************)
Names == {"a", "b"}

\* the resources a package can list: name is the resource name without
\* " Primary Transformer Flows"
ResourceKinds ==
    {[name |-> n, format |-> f, url |-> u] :
        n \in Names, f \in {"CSV", "PDF"}, u \in {"http", "redacted"}}
        \ {[name |-> n, format |-> "PDF", url |-> "redacted"] : n \in Names}

\* resource_format.lower() == "csv" and url and not url.startswith("redacted")
IsSubstationCsv(resource) == resource.format = "CSV" /\ resource.url = "http"

\* get_substation_resource_urls: the SubstationResource list
get_substation_resource_urls(resources) == SelectSeq(resources, IsSubstationCsv)

\* the CSV files a download can bring
CsvMVA == [header |-> <<"ValueDate", "MVA", "Volts">>,
           rows |-> <<[time |-> <<1>>, unit |-> "", v |-> 1]>>]
CsvMWInst == [header |-> <<"ValueDate", "Current Inst", "MVAr Inst", "MW Inst", "Volts Inst">>,
              rows |-> <<[time |-> <<2>>, unit |-> "", v |-> 2]>>]
CsvLongMW == [header |-> <<"site", "time", "unit", "value">>,
              rows |-> <<[time |-> <<1>>, unit |-> "MW", v |-> 2]>>]
CsvNoRows == [header |-> <<"ValueDate", "MVA", "Volts">>, rows |-> <<>>]
CsvBadUnit == [header |-> <<"site", "time", "unit", "value">>,
               rows |-> <<[time |-> <<1>>, unit |-> "kV", v |-> 1]>>]
CsvOnlyMVAr == [header |-> <<"ValueDate", "MVAr", "Volts">>,
                rows |-> <<[time |-> <<1>>, unit |-> "", v |-> 1]>>]
CsvBadTime == [header |-> <<"ValueDate", "MVA", "Volts">>,
               rows |-> <<[time |-> <<>>, unit |-> "", v |-> 1]>>]

BatchCsvFiles == {CsvMVA, CsvMWInst, CsvLongMW, CsvNoRows, CsvBadUnit, CsvOnlyMVAr, CsvBadTime}

\* the orders in which region_path.glob("*.csv") can list the files of S
Orders(S) ==
    IF S = {} THEN {<<>>}
    ELSE {o \in [1..Cardinality(S) -> S] : \A n \in S : \E i \in DOMAIN o : o[i] = n}

NoErrors == [n \in {} |-> <<>>]

BStart ==
    /\ bMode \in {"disk", "stream"}
    /\ bResources \in SeqsUpTo(ResourceKinds, MaxResources)
    /\ bDisk = [n \in Names |-> {}]
    /\ bPc = "start"
    /\ dlList = <<>> /\ dlIdx = 1 /\ dlAttempted = {}
    /\ csv_files = <<>> /\ prIdx = 1 /\ dfs = <<>> /\ all_errors = NoErrors
    /\ total_count = 0 /\ yielded = <<>> /\ bOutput = {}
    /\ stIdx = 1 /\ stFetched = <<>> /\ stResults = <<>>

BIdle ==
    /\ bMode = "disk"
    /\ bResources = <<>>
    /\ bDisk = [n \in Names |-> {}]
    /\ bPc = "start"
    /\ dlList = <<>> /\ dlIdx = 1 /\ dlAttempted = {}
    /\ csv_files = <<>> /\ prIdx = 1 /\ dfs = <<>> /\ all_errors = NoErrors
    /\ total_count = 0 /\ yielded = <<>> /\ bOutput = {}
    /\ stIdx = 1 /\ stFetched = <<>> /\ stResults = <<>>

prVars == <<csv_files, prIdx, dfs, all_errors, total_count, yielded, bOutput>>
stVars == <<stIdx, stFetched, stResults>>

\* client.get_package_show raises: the asset (or the generator) fails
PackageShowRaises ==
    /\ bPc = "start"
    /\ bPc' = "failed"
    /\ UNCHANGED <<notB, bMode, bResources, bDisk, dlList, dlIdx, dlAttempted, prVars, stVars>>

\* _download_raw_csvs_for_region, up to the loop
ListResources ==
    /\ bPc = "start" /\ bMode = "disk"
    /\ dlList' = get_substation_resource_urls(bResources)
    /\ dlIdx' = 1
    /\ dlAttempted' = {}
    /\ bPc' = "download"
    /\ UNCHANGED <<notB, bMode, bResources, bDisk, prVars, stVars>>

\* a mutant of dest_path_exists: no file is ever found
dest_path_exists_never(disk, substation_name) == FALSE

\* dest_path.exists(), dest_path being region_path / "<substation_name>.csv"
dest_path_exists(disk, substation_name) == disk[substation_name] # {}

\* one pass of the loop: dest_path does not exist, download_resource returns
DownloadResource ==
    /\ bPc = "download" /\ dlIdx <= Len(dlList)
    /\ ~dest_path_exists(bDisk, dlList[dlIdx].name)
    /\ \E csv \in BatchCsvFiles :
          bDisk' = [bDisk EXCEPT ![dlList[dlIdx].name] = {csv}]
    /\ dlAttempted' = dlAttempted \cup {dlIdx}
    /\ dlIdx' = dlIdx + 1
    /\ UNCHANGED <<notB, bMode, bResources, bPc, dlList, prVars, stVars>>

\* one pass of the loop: dest_path does not exist, download_resource raises;
\* nothing catches it, so the function ends there
DownloadRaises ==
    /\ bPc = "download" /\ dlIdx <= Len(dlList)
    /\ ~dest_path_exists(bDisk, dlList[dlIdx].name)
    /\ dlAttempted' = dlAttempted \cup {dlIdx}
    /\ bPc' = "failed"
    /\ UNCHANGED <<notB, bMode, bResources, bDisk, dlList, dlIdx, prVars, stVars>>

\* one pass of the loop: dest_path exists
SkipExisting ==
    /\ bPc = "download" /\ dlIdx <= Len(dlList)
    /\ dest_path_exists(bDisk, dlList[dlIdx].name)
    /\ dlAttempted' = dlAttempted \cup {dlIdx}
    /\ dlIdx' = dlIdx + 1
    /\ UNCHANGED <<notB, bMode, bResources, bDisk, bPc, dlList, prVars, stVars>>

\* _download_raw_csvs_for_region returns; _process_region_from_disk starts
\* and lists the CSV files
GlobCsvFiles ==
    /\ bPc = "download" /\ dlIdx > Len(dlList)
    /\ csv_files' \in Orders({n \in Names : bDisk[n] # {}})
    /\ prIdx' = 1 /\ dfs' = <<>> /\ all_errors' = NoErrors /\ total_count' = 0
    /\ yielded' = <<>> /\ bOutput' = {}
    /\ bPc' = "process"
    /\ UNCHANGED <<notB, bMode, bResources, bDisk, dlList, dlIdx, dlAttempted, stVars>>

\* a mutant of AfterFile: an exception ends the loop
AfterFile_break(result) == IF result.ok THEN prIdx + 1 ELSE Len(csv_files) + 1

\* where the loop over csv_files goes after a file: to the next file, whether
\* the file was read or raised (the except clause ends inside the loop)
AfterFile(result) == prIdx + 1

\* a mutant of RecordError: only the first failure is kept
RecordError_first(errors, substation_name, err) ==
    IF DOMAIN errors # {} THEN errors
    ELSE [n \in {substation_name} |-> <<err>>]

\* all_errors[substation_name] = [str(e)]
RecordError(errors, substation_name, err) ==
    [n \in DOMAIN errors \cup {substation_name} |->
        IF n = substation_name THEN <<err>> ELSE errors[n]]

\* a mutant of OutputFrame: the concatenation, whatever dfs holds
OutputFrame_concat(frames) == ConcatDiagonal(frames)

\* lines 129-133: the frame of the Output
OutputFrame(frames) == IF frames = <<>> THEN EmptyFrame ELSE ConcatDiagonal(frames)

Observation(substation, result) ==
    [kind |-> "AssetObservation", substation |-> substation, passed |-> result.ok,
     row_count |-> IF result.ok THEN Len(result.df.rows) ELSE 0]

\* one pass of the loop of _process_region_from_disk
ProcessFile ==
    /\ bPc = "process" /\ prIdx <= Len(csv_files)
    /\ LET substation_name == csv_files[prIdx]
           result == read_primary_substation_csv(
                         CHOOSE csv \in bDisk[substation_name] : TRUE, substation_name)
       IN  /\ total_count' = total_count + 1
           /\ dfs' = IF result.ok /\ result.df.rows # <<>>
                     THEN Append(dfs, result.df) ELSE dfs
           /\ all_errors' =
                 IF result.ok THEN all_errors
                 ELSE RecordError(all_errors, substation_name, result.err)
           /\ yielded' = Append(yielded, Observation(substation_name, result))
           /\ prIdx' = AfterFile(result)
    /\ UNCHANGED <<notB, bMode, bResources, bDisk, bPc, dlList, dlIdx, dlAttempted,
                   csv_files, bOutput, stVars>>

\* the AssetCheckResult after the loop
YieldCheck ==
    /\ bPc = "process" /\ prIdx > Len(csv_files)
    /\ yielded' = Append(yielded,
          [kind |-> "AssetCheckResult", passed |-> DOMAIN all_errors = {},
           total_substations |-> total_count,
           failed_count |-> Cardinality(DOMAIN all_errors),
           errors_by_substation |-> all_errors])
    /\ bPc' = "output"
    /\ UNCHANGED <<notB, bMode, bResources, bDisk, dlList, dlIdx, dlAttempted,
                   csv_files, prIdx, dfs, all_errors, total_count, bOutput, stVars>>

\* the Output: the empty frame, or the diagonal concatenation
YieldOutput ==
    /\ bPc = "output"
    /\ bOutput' = {OutputFrame(dfs)}
    /\ yielded' = Append(yielded, [kind |-> "Output"])
    /\ bPc' = "done"
    /\ UNCHANGED <<notB, bMode, bResources, bDisk, dlList, dlIdx, dlAttempted,
                   csv_files, prIdx, dfs, all_errors, total_count, stVars>>

\* download_live_primary_data, up to the loop
StreamStart ==
    /\ bPc = "start" /\ bMode = "stream"
    /\ stIdx' = 1 /\ stFetched' = <<>> /\ stResults' = <<>>
    /\ bPc' = "stream"
    /\ UNCHANGED <<notB, bMode, bResources, bDisk, dlList, dlIdx, dlAttempted, prVars>>

\* one pass of the loop: not a CSV resource with a usable url
StreamSkip ==
    /\ bPc = "stream" /\ stIdx <= Len(bResources)
    /\ ~IsSubstationCsv(bResources[stIdx])
    /\ stIdx' = stIdx + 1
    /\ UNCHANGED <<notB, bMode, bResources, bDisk, bPc, dlList, dlIdx, dlAttempted, prVars,
                   stFetched, stResults>>

\* one pass of the loop: session.get or raise_for_status raises; the except
\* clause yields a result that carries the error
StreamFetchRaises ==
    /\ bPc = "stream" /\ stIdx <= Len(bResources)
    /\ IsSubstationCsv(bResources[stIdx])
    /\ stFetched' = Append(stFetched, [index |-> stIdx, csv |-> {}])
    /\ stResults' = Append(stResults,
          [substation_name |-> bResources[stIdx].name, df |-> {},
           errors |-> <<"HTTPError">>])
    /\ stIdx' = stIdx + 1
    /\ UNCHANGED <<notB, bMode, bResources, bDisk, bPc, dlList, dlIdx, dlAttempted, prVars>>

\* one pass of the loop: the content arrives and is read
StreamFetch ==
    /\ bPc = "stream" /\ stIdx <= Len(bResources)
    /\ IsSubstationCsv(bResources[stIdx])
    /\ \E csv \in BatchCsvFiles :
          LET result == read_primary_substation_csv(csv, bResources[stIdx].name)
          IN  /\ stFetched' = Append(stFetched, [index |-> stIdx, csv |-> {csv}])
              /\ stResults' = Append(stResults,
                    [substation_name |-> bResources[stIdx].name,
                     df |-> IF result.ok THEN {result.df} ELSE {},
                     errors |-> IF result.ok THEN <<>> ELSE <<result.err>>])
    /\ stIdx' = stIdx + 1
    /\ UNCHANGED <<notB, bMode, bResources, bDisk, bPc, dlList, dlIdx, dlAttempted, prVars>>

\* the loop of download_live_primary_data ends
StreamEnd ==
    /\ bPc = "stream" /\ stIdx > Len(bResources)
    /\ bPc' = "done"
    /\ UNCHANGED <<notB, bMode, bResources, bDisk, dlList, dlIdx, dlAttempted, prVars, stVars>>

\* the assets are materialised again: the files on disk stay, the locals of
\* the functions start afresh
Rematerialise ==
    /\ bPc \in {"done", "failed"}
    /\ bPc' = "start"
    /\ dlList' = <<>> /\ dlIdx' = 1 /\ dlAttempted' = {}
    /\ csv_files' = <<>> /\ prIdx' = 1 /\ dfs' = <<>> /\ all_errors' = NoErrors
    /\ total_count' = 0 /\ yielded' = <<>> /\ bOutput' = {}
    /\ stIdx' = 1 /\ stFetched' = <<>> /\ stResults' = <<>>
    /\ UNCHANGED <<notB, bMode, bResources, bDisk>>

BNext ==
    \/ PackageShowRaises
    \/ ListResources
    \/ DownloadResource
    \/ DownloadRaises
    \/ SkipExisting
    \/ GlobCsvFiles
    \/ ProcessFile
    \/ YieldCheck
    \/ YieldOutput
    \/ StreamStart
    \/ StreamSkip
    \/ StreamFetchRaises
    \/ StreamFetch
    \/ StreamEnd
    \/ Rematerialise

(***************************************************************************)
(* The location catalog: download_substation_locations and                 *)
(* get_primary_substation_locations                                        *)
(*                                                                         *)
(* A candidate is a resource the portal lists for the catalog: its format, *)
(* and what fetching it gives: "HTTPError" (the get or raise_for_status    *)
(* raises), or the content: [readable, rows], rows being the rows of the   *)
(* table when pl.read_csv can read it.                                     *)
(***************************************************************************)
\* ge=49, le=61 and ge=-9, le=2 of SubstationLocations
LatMin == 49
LatMax == 61
LonMin == -9
LonMax == 2

LocationRows ==
    {[substation_name |-> "a", latitude |-> 50, longitude |-> 0],
     [substation_name |-> "a", latitude |-> 48, longitude |-> 0]}

CatalogContents ==
    {[readable |-> FALSE, rows |-> <<>>]} \cup
    {[readable |-> TRUE, rows |-> rs] : rs \in SeqsUpTo(LocationRows, 1)}

Candidates ==
    {[format |-> f, fetch |-> "HTTPError", content |-> [readable |-> FALSE, rows |-> <<>>]] :
        f \in {"CSV", "PDF"}} \cup
    {[format |-> f, fetch |-> "ok", content |-> c] :
        f \in {"CSV", "PDF"}, c \in CatalogContents}

\* SubstationLocations.validate on the rows of a table
LocationsValid(rows) ==
    \A i \in DOMAIN rows :
        /\ LatMin <= rows[i].latitude /\ rows[i].latitude <= LatMax
        /\ LonMin <= rows[i].longitude /\ rows[i].longitude <= LonMax

\* the body of the try of download_substation_locations, and lines 34-42 of
\* get_primary_substation_locations: the table, or the exception
LoadCandidate(candidate) ==
    IF candidate.fetch # "ok" THEN [ok |-> FALSE, rows |-> <<>>, err |-> "HTTPError"]
    ELSE IF ~candidate.content.readable
         THEN [ok |-> FALSE, rows |-> <<>>, err |-> "ComputeError: read_csv"]
    ELSE IF ~LocationsValid(candidate.content.rows)
         THEN [ok |-> FALSE, rows |-> <<>>, err |-> "DataFrameValidationError"]
    ELSE [ok |-> TRUE, rows |-> candidate.content.rows, err |-> ""]

\* resource["format"].lower() == "csv", result["format"].upper() == "CSV"
IsCsv(candidate) == candidate.format = "CSV"

\* find_one_match: the one match, or the ValueError; predicate is the set of
\* the values it holds for
find_one_match(predicate, haystack) ==
    LET filtered == SelectSeq(haystack, LAMBDA x : x \in predicate)
    IN  IF Len(haystack) = 0 THEN [ok |-> FALSE, match |-> {}, err |-> "ValueError: haystack is empty!"]
        ELSE IF Len(filtered) # 1
             THEN [ok |-> FALSE, match |-> {}, err |-> "ValueError: matches"]
        ELSE [ok |-> TRUE, match |-> {filtered[1]}, err |-> ""]

CStart ==
    /\ cMode \in {"download_substation_locations", "get_primary_substation_locations"}
    /\ cCandidates \in SeqsUpTo(Candidates, MaxCandidates)
    /\ cPc = "start"
    /\ cIdx = 1
    /\ cMatch = {}
    /\ cResult = [kind |-> "none", rows |-> <<>>, err |-> ""]

CIdle ==
    /\ cMode = "download_substation_locations"
    /\ cCandidates = <<>>
    /\ cPc = "start"
    /\ cIdx = 1
    /\ cMatch = {}
    /\ cResult = [kind |-> "none", rows |-> <<>>, err |-> ""]

Raised(err) == [kind |-> "raised", rows |-> <<>>, err |-> err]
Returned(rows) == [kind |-> "returned", rows |-> rows, err |-> ""]

\* get_package_show or resource_search raises: the loader raises
PortalRaises ==
    /\ cPc = "start"
    /\ cPc' = "end"
    /\ cResult' = Raised("CKANAPIError")
    /\ UNCHANGED <<notC, cMode, cCandidates, cIdx, cMatch>>

\* download_substation_locations: get_package_show returns, the loop starts
LocationsLoopStart ==
    /\ cPc = "start" /\ cMode = "download_substation_locations"
    /\ cPc' = "loop"
    /\ cIdx' = 1
    /\ UNCHANGED <<notC, cMode, cCandidates, cMatch, cResult>>

\* one pass of the loop: not a CSV resource
LocationsSkip ==
    /\ cPc = "loop" /\ cIdx <= Len(cCandidates)
    /\ ~IsCsv(cCandidates[cIdx])
    /\ cIdx' = cIdx + 1
    /\ UNCHANGED <<notC, cMode, cCandidates, cPc, cMatch, cResult>>

\* one pass of the loop: the try raises, the except clause logs the error
LocationsCandidateFails ==
    /\ cPc = "loop" /\ cIdx <= Len(cCandidates)
    /\ IsCsv(cCandidates[cIdx])
    /\ ~LoadCandidate(cCandidates[cIdx]).ok
    /\ cIdx' = cIdx + 1
    /\ UNCHANGED <<notC, cMode, cCandidates, cPc, cMatch, cResult>>

\* one pass of the loop: the validated table is returned
LocationsCandidateLoads ==
    /\ cPc = "loop" /\ cIdx <= Len(cCandidates)
    /\ IsCsv(cCandidates[cIdx])
    /\ LoadCandidate(cCandidates[cIdx]).ok
    /\ cResult' = Returned(LoadCandidate(cCandidates[cIdx]).rows)
    /\ cPc' = "end"
    /\ UNCHANGED <<notC, cMode, cCandidates, cIdx, cMatch>>

\* after the loop: the empty table with the schema of SubstationLocations
LocationsReturnEmpty ==
    /\ cPc = "loop" /\ cIdx > Len(cCandidates)
    /\ cResult' = Returned(<<>>)
    /\ cPc' = "end"
    /\ UNCHANGED <<notC, cMode, cCandidates, cIdx, cMatch>>

\* get_primary_substation_locations: resource_search returns, find_one_match
FindCatalogResource ==
    /\ cPc = "start" /\ cMode = "get_primary_substation_locations"
    /\ LET found == find_one_match({c \in Candidates : IsCsv(c)}, cCandidates)
       IN  /\ cMatch' = found.match
           /\ cPc' = IF found.ok THEN "fetch" ELSE "end"
           /\ cResult' = IF found.ok THEN cResult ELSE Raised(found.err)
    /\ UNCHANGED <<notC, cMode, cCandidates, cIdx>>

\* get_primary_substation_locations: the rest, nothing is caught
FetchCatalog ==
    /\ cPc = "fetch"
    /\ LET loaded == LoadCandidate(CHOOSE c \in cMatch : TRUE)
       IN  cResult' = IF loaded.ok THEN Returned(loaded.rows) ELSE Raised(loaded.err)
    /\ cPc' = "end"
    /\ UNCHANGED <<notC, cMode, cCandidates, cIdx, cMatch>>

CNext ==
    \/ PortalRaises
    \/ LocationsLoopStart
    \/ LocationsSkip
    \/ LocationsCandidateFails
    \/ LocationsCandidateLoads
    \/ LocationsReturnEmpty
    \/ FindCatalogResource
    \/ FetchCatalog

(***************************************************************************)
(* nged_live_primary_data: the four region frames are concatenated,        *)
(* sorted and written to Parquet, one partition per month                  *)
(*                                                                         *)
(* store is the persisted dataset: for each month the rows of its          *)
(* partition file (<<>>: no file).  write_parquet(partition_by="month")    *)
(* writes the file of every month the dataframe has rows for, replacing    *)
(* the file a former run wrote, and leaves every other partition alone.    *)
(* The function never reads the dataset.                                   *)
(***************************************************************************)
Regions == <<"south_wales", "south_west", "west_midlands", "east_midlands">>

Times == 1..MaxTime

\* the month (partition) of a timestamp: strftime("%Y-%m"); two timestamps
\* to a month
MonthOf(t) == (t + 1) \div 2

Months == {MonthOf(t) : t \in Times}

TsOf(row) == CHOOSE t \in row.timestamp : TRUE
NameOf(row) == CHOOSE n \in row.substation_name : TRUE

\* the order of substation names in the sort
NameRank(n) == IF n = "a" THEN 1 ELSE 2

\* the sort key ["substation_name", "timestamp"]
KeyLess(r, s) ==
    \/ NameRank(NameOf(r)) < NameRank(NameOf(s))
    \/ NameOf(r) = NameOf(s) /\ TsOf(r) < TsOf(s)

\* the orders of the rows with indices S in which no row comes before a row
\* with a smaller key
RECURSIVE SortedOrders(_, _)
SortedOrders(rows, S) ==
    IF S = {} THEN {<<>>}
    ELSE UNION {{<<i>> \o rest : rest \in SortedOrders(rows, S \ {i})} :
                   i \in {i \in S : \A j \in S : ~KeyLess(rows[j], rows[i])}}

\* a mutant of SortOutcomes: the frame is left as concatenated
SortOutcomes_unsorted(rows) == {rows}

\* df.sort(["substation_name", "timestamp"]): maintain_order is left False,
\* so rows with equal keys come out in any order
SortOutcomes(rows) ==
    {[k \in DOMAIN rows |-> rows[o[k]]] : o \in SortedOrders(rows, DOMAIN rows)}

RECURSIVE ConcatRows(_)
ConcatRows(frames) ==
    IF frames = <<>> THEN <<>>
    ELSE frames[1].rows \o ConcatRows(Tail(frames))

\* pl.concat(frames), how="vertical" by default: the frames must have the
\* same columns in the same order, else it raises
ConcatVertical(frames) ==
    IF \A i \in DOMAIN frames : frames[i].cols = frames[1].cols
    THEN [ok |-> TRUE, df |-> [cols |-> frames[1].cols, rows |-> ConcatRows(frames)]]
    ELSE [ok |-> FALSE, df |-> EmptyFrame]

\* lines 230-240: what concatenating and sorting the frames can give
ConsolidateOutcomes(frames) ==
    LET cat == ConcatVertical(frames)
    IN  IF ~cat.ok THEN {cat}
        ELSE {[ok |-> TRUE, df |-> [cols |-> cat.df.cols, rows |-> q]] :
                 q \in SortOutcomes(cat.df.rows)}

\* df.write_parquet(output_path, partition_by="month")
WritePartitions(st, rows) ==
    [m \in Months |->
        IF \E i \in DOMAIN rows : MonthOf(TsOf(rows[i])) = m
        THEN SelectSeq(rows, LAMBDA r : MonthOf(TsOf(r)) = m)
        ELSE st[m]]

\* the rows a region frame can hold: every power column it has holds v
MNames == {"a"}
MVals == {1, 2}
FullCols == SchemaCols
MVAOnlyCols == <<"substation_name", "timestamp", "MVA">>

MRows(cols) ==
    {[substation_name |-> {n}, timestamp |-> {t},
      MW |-> IF "MW" \in SeqToSet(cols) THEN {v} ELSE NULL,
      MVA |-> IF "MVA" \in SeqToSet(cols) THEN {v} ELSE NULL,
      MVAr |-> IF "MVAr" \in SeqToSet(cols) THEN {v} ELSE NULL] :
        n \in MNames, t \in Times, v \in MVals}

\* the frames a region asset can output with k rows: the empty frame of the
\* full schema, or the rows of its files with the columns the files have
MFrames(k) ==
    IF k = 0 THEN {EmptyFrame}
    ELSE {[cols |-> c, rows |-> rs] : c \in {FullCols}, rs \in [1..k -> MRows(FullCols)]}
         \cup {[cols |-> c, rows |-> rs] : c \in {MVAOnlyCols}, rs \in [1..k -> MRows(MVAOnlyCols)]}

\* the outputs of n region assets with at most budget rows in all
RECURSIVE RegionOutputs(_, _)
RegionOutputs(n, budget) ==
    IF n = 0 THEN {<<>>}
    ELSE UNION {{<<f>> \o rest : rest \in RegionOutputs(n - 1, budget - k), f \in MFrames(k)} :
                   k \in 0..budget}

EmptyStore == [m \in Months |-> <<>>]

MStart ==
    /\ store = EmptyStore
    /\ oldStore = EmptyStore
    /\ newFrames = [i \in DOMAIN Regions |-> EmptyFrame]
    /\ mOutcome = "none"

MIdle == MStart

\* one materialisation of nged_live_primary_data on the outputs of the four
\* region assets
nged_live_primary_data ==
    \E frames \in RegionOutputs(Len(Regions), MaxNewRows) : \E out \in ConsolidateOutcomes(frames) :
        /\ mOutcome = "none"
        /\ newFrames' = frames
        /\ oldStore' = store
        /\ mOutcome' = IF out.ok THEN "ok" ELSE "raised"
        /\ store' = IF out.ok THEN WritePartitions(store, out.df.rows) ELSE store
        /\ UNCHANGED notM

\* the run is over; the dataset stays for the next materialisation
RunEnds ==
    /\ mOutcome # "none"
    /\ mOutcome' = "none"
    /\ oldStore' = EmptyStore
    /\ newFrames' = [i \in DOMAIN Regions |-> EmptyFrame]
    /\ UNCHANGED <<notM, store>>

MNext ==
    \/ nged_live_primary_data
    \/ RunEnds

(***************************************************************************)
(* Lines 230-240 as a function of two frames: merge(A, B) is the sorted    *)
(* concatenation of A and B.  A result is [ok, df]; a raise of the         *)
(* concatenation is carried through an enclosing merge.                    *)
(***************************************************************************)
Lift(df) == [ok |-> TRUE, df |-> df]

MergeOutcomes(x, y) ==
    IF ~x.ok \/ ~y.ok THEN {[ok |-> FALSE, df |-> EmptyFrame]}
    ELSE ConsolidateOutcomes(<<x.df, y.df>>)

\* the record sets merged: one substation, one value
ARows(cols) == {r \in MRows(cols) : \A c \in PowerCols : r[c] \subseteq {1}}

AFrames ==
    {[cols |-> c, rows |-> rs] : c \in {FullCols},
        rs \in UNION {[1..k -> ARows(FullCols)] : k \in 0..MaxSetRows}}
    \cup {[cols |-> c, rows |-> rs] : c \in {MVAOnlyCols},
        rs \in UNION {[1..k -> ARows(MVAOnlyCols)] : k \in 0..MaxSetRows}}

NoResult == [ok |-> FALSE, df |-> EmptyFrame]

AStart ==
    /\ aA \in AFrames
    /\ aB \in AFrames
    /\ aC \in AFrames
    /\ aPc = "start"
    /\ aAA = NoResult
    /\ aAB = NoResult
    /\ aBA = NoResult
    /\ aLeft = NoResult
    /\ aRight = NoResult

AIdle ==
    /\ aA = EmptyFrame
    /\ aB = EmptyFrame
    /\ aC = EmptyFrame
    /\ aPc = "start"
    /\ aAA = NoResult
    /\ aAB = NoResult
    /\ aBA = NoResult
    /\ aLeft = NoResult
    /\ aRight = NoResult

\* merge(A, A)
MergeSelf ==
    /\ aPc = "start"
    /\ aAA' \in MergeOutcomes(Lift(aA), Lift(aA))
    /\ aPc' = "self"
    /\ UNCHANGED <<notA, aA, aB, aC, aAB, aBA, aLeft, aRight>>

\* merge(A, B) and merge(B, A)
MergeBothOrders ==
    /\ aPc = "self"
    /\ aAB' \in MergeOutcomes(Lift(aA), Lift(aB))
    /\ aBA' \in MergeOutcomes(Lift(aB), Lift(aA))
    /\ aPc' = "orders"
    /\ UNCHANGED <<notA, aA, aB, aC, aAA, aLeft, aRight>>

\* merge(A, merge(B, C)) and merge(merge(A, B), C)
MergeBothGroupings ==
    /\ aPc = "orders"
    /\ \E bc \in MergeOutcomes(Lift(aB), Lift(aC)) :
           aLeft' \in MergeOutcomes(Lift(aA), bc)
    /\ \E ab \in MergeOutcomes(Lift(aA), Lift(aB)) :
           aRight' \in MergeOutcomes(ab, Lift(aC))
    /\ aPc' = "done"
    /\ UNCHANGED <<notA, aA, aB, aC, aAA, aAB, aBA>>

ANext ==
    \/ MergeSelf
    \/ MergeBothOrders
    \/ MergeBothGroupings

(***************************************************************************)
(* Two materialisations of nged_live_primary_data at once.  Nothing in the *)
(* function takes a lock or checks for another run: each run concatenates  *)
(* and sorts its own frames, then writes its partition files one by one.   *)
(***************************************************************************)
Writers == {1, 2}

MonthsOf(rows) == {MonthOf(TsOf(rows[i])) : i \in DOMAIN rows}

WStart ==
    /\ wStore = EmptyStore
    /\ wPc = [w \in Writers |-> "idle"]
    /\ wDf = [w \in Writers |-> <<>>]
    /\ wTodo = [w \in Writers |-> {}]

WIdle == WStart

\* lines 230-244: the run builds its dataframe
WriterStarts(w) ==
    /\ wPc[w] = "idle"
    /\ \E frames \in RegionOutputs(Len(Regions), MaxWriterRows) : \E out \in ConsolidateOutcomes(frames) :
        /\ wPc' = [wPc EXCEPT ![w] = IF out.ok THEN "writing" ELSE "raised"]
        /\ wDf' = [wDf EXCEPT ![w] = IF out.ok THEN out.df.rows ELSE <<>>]
        /\ wTodo' = [wTodo EXCEPT ![w] = IF out.ok THEN MonthsOf(out.df.rows) ELSE {}]
    /\ UNCHANGED <<notW, wStore>>

\* line 250: the file of one partition is written
WriterWritesPartition(w) ==
    /\ wPc[w] = "writing"
    /\ \E m \in wTodo[w] :
        /\ wStore' = [wStore EXCEPT ![m] =
                         SelectSeq(wDf[w], LAMBDA r : MonthOf(TsOf(r)) = m)]
        /\ wTodo' = [wTodo EXCEPT ![w] = @ \ {m}]
    /\ UNCHANGED <<notW, wPc, wDf>>

\* the run returns
WriterEnds(w) ==
    /\ wPc[w] = "writing"
    /\ wTodo[w] = {}
    /\ wPc' = [wPc EXCEPT ![w] = "done"]
    /\ UNCHANGED <<notW, wStore, wDf, wTodo>>

WNext ==
    \/ \E w \in Writers : WriterStarts(w)
    \/ \E w \in Writers : WriterWritesPartition(w)
    \/ \E w \in Writers : WriterEnds(w)

(***************************************************************************)
(* Substation names: simplify_substation_name                              *)
(*                                                                         *)
(* A name is the sequence of its characters.  A pattern is a sequence of   *)
(* sets of characters: a literal has one character in each set, and        *)
(* (?i)kv has {"k", "K"} and {"v", "V"}.                                   *)
(***************************************************************************)
Lit(str) == [i \in DOMAIN str |-> {str[i]}]

MatchesAt(s, i, p) ==
    /\ i + Len(p) - 1 <= Len(s)
    /\ \A k \in DOMAIN p : s[i + k - 1] \in p[k]

\* .str.replace_all(p, r): every match from the left, matches do not overlap
\* and the result is not searched again
RECURSIVE ReplaceAllFrom(_, _, _, _)
ReplaceAllFrom(s, i, p, r) ==
    IF i > Len(s) THEN <<>>
    ELSE IF MatchesAt(s, i, p) THEN r \o ReplaceAllFrom(s, i + Len(p), p, r)
    ELSE <<s[i]>> \o ReplaceAllFrom(s, i + 1, p, r)

replace_all(s, p, r) == ReplaceAllFrom(s, 1, p, r)

Digits == {"0", "1", "2", "3", "4", "5", "6", "7", "8", "9"}

\* the number of digits from position i on
RECURSIVE DigitRun(_, _)
DigitRun(s, i) ==
    IF i > Len(s) \/ s[i] \notin Digits THEN 0 ELSE 1 + DigitRun(s, i + 1)

KvPattern == <<{"k", "K"}, {"v", "V"}>>

\* the length of the match of \d{2,}(?i)kv at position i, 0 when there is none
MatchDigitsKv(s, i) ==
    LET n == DigitRun(s, i)
    IN  IF n >= 2 /\ MatchesAt(s, i + n, KvPattern) THEN n + 2 ELSE 0

\* .str.replace_all(r"\d{2,}(?i)kv", "")
RECURSIVE RemoveDigitsKvFrom(_, _)
RemoveDigitsKvFrom(s, i) ==
    IF i > Len(s) THEN <<>>
    ELSE IF MatchDigitsKv(s, i) > 0 THEN RemoveDigitsKvFrom(s, i + MatchDigitsKv(s, i))
    ELSE <<s[i]>> \o RemoveDigitsKvFrom(s, i + 1)

\* .str.strip_chars(C): the characters of C are taken off both ends
RECURSIVE StripStart(_, _)
StripStart(s, C) ==
    IF s # <<>> /\ s[1] \in C THEN StripStart(Tail(s), C) ELSE s

RECURSIVE StripEnd(_, _)
StripEnd(s, C) ==
    IF s # <<>> /\ s[Len(s)] \in C THEN StripEnd(SubSeq(s, 1, Len(s) - 1), C) ELSE s

strip_chars(s, C) == StripEnd(StripStart(s, C), C)

Whitespace == {" "}

P_PrimaryTransformerFlows == Lit(<<" ", "P", "r", "i", "m", "a", "r", "y", " ", "T", "r", "a", "n", "s", "f", "o", "r", "m", "e", "r", " ", "F", "l", "o", "w", "s">>)
P_SSlashStn == Lit(<<"S", "/", "S", "t", "n">>)
P_Slash == Lit(<<"/">>)
P_V132 == Lit(<<"1", "3", "2">>)
P_V66 == Lit(<<"6", "6">>)
P_V33 == Lit(<<"3", "3">>)
P_V11 == Lit(<<"1", "1">>)
P_SixSixKv == Lit(<<"6", " ", "6", "k", "v">>)
P_Primary == Lit(<<"P", "r", "i", "m", "a", "r", "y">>)
P_SStn == Lit(<<"S", " ", "S", "t", "n">>)
P_SpaceKv == Lit(<<" ", "K", "v">>)
P_TwoSpaces == Lit(<<" ", " ">>)
P_SixDotSixKv == Lit(<<"6", ".", "6">>) \o KvPattern

\* one match of the chain removed
Remove(s, p) == replace_all(s, p, <<>>)

\* a mutant of simplify_substation_name: the voltage followed by kv is kept
simplify_keeps_voltage(name) ==
    strip_chars(strip_chars(Remove(Remove(name, P_PrimaryTransformerFlows), P_Primary),
                            Whitespace), {"."})

\* simplify_substation_name: the chain of align.py, in its order
simplify_substation_name(name) ==
    LET s1 == Remove(name, P_PrimaryTransformerFlows)
        s2 == RemoveDigitsKvFrom(s1, 1)
        s3 == Remove(s2, P_SSlashStn)
        s4 == Remove(s3, P_Slash)
        s5 == Remove(s4, P_V132)
        s6 == Remove(s5, P_V66)
        s7 == Remove(s6, P_V33)
        s8 == Remove(s7, P_V11)
        s9 == Remove(s8, P_SixDotSixKv)
        s10 == Remove(s9, P_SixSixKv)
        s11 == Remove(s10, P_Primary)
        s12 == Remove(s11, P_SStn)
        s13 == Remove(s12, P_SpaceKv)
        s14 == replace_all(s13, P_TwoSpaces, <<" ">>)
    IN  strip_chars(strip_chars(s14, Whitespace), {"."})

\* name_filtered of process_substation_names_from_substation_locations: the
\* chain of substation_names.py
name_filtered(name) ==
    LET s1 == RemoveDigitsKvFrom(name, 1)
        s2 == Remove(s1, P_Slash)
        s3 == Remove(s2, P_V132)
        s4 == Remove(s3, P_V66)
        s5 == Remove(s4, P_V33)
        s6 == Remove(s5, P_V11)
        s7 == Remove(s6, P_SixDotSixKv)
        s8 == Remove(s7, P_Primary)
        s9 == Remove(s8, P_SStn)
        s10 == replace_all(s9, P_TwoSpaces, <<" ">>)
    IN  strip_chars(strip_chars(s10, Whitespace), {"."})

\* the parts the labels are put together from

W_Park == <<"P", "a", "r", "k", " ">>
W_Lane == <<"L", "a", "n", "e">>
W_V33 == <<"3", "3", " ">>
W_V11 == <<"1", "1", " ">>
W_V11Kv == <<"1", "1", "K", "v">>
W_SStn == <<"S", " ", "S", "t", "n">>
W_Dot == <<".">>
W_Space == <<" ">>
W_Primary == <<" ", "P", "r", "i", "m", "a", "r", "y">>
W_Slash == <<"/">>
Vocabulary == {W_Park, W_Lane, W_V33, W_V11, W_V11Kv, W_SStn, W_Dot, W_Space, W_Primary, W_Slash}

RECURSIVE Flat(_)
Flat(ws) == IF ws = <<>> THEN <<>> ELSE ws[1] \o Flat(Tail(ws))

SStart ==
    /\ \E ws \in SeqsUpTo(Vocabulary, MaxWords) : sLabel = Flat(ws)
    /\ sPc = "start"
    /\ sOnce = <<>>
    /\ sTwice = <<>>
    /\ fOnce = <<>>
    /\ fTwice = <<>>

SIdle ==
    /\ sLabel = <<>>
    /\ sPc = "start"
    /\ sOnce = <<>>
    /\ sTwice = <<>>
    /\ fOnce = <<>>
    /\ fTwice = <<>>

\* the label is simplified
Simplify ==
    /\ sPc = "start"
    /\ sOnce' = simplify_substation_name(sLabel)
    /\ fOnce' = name_filtered(sLabel)
    /\ sPc' = "once"
    /\ UNCHANGED <<notS, sLabel, sTwice, fTwice>>

\* what came out is simplified again
SimplifyAgain ==
    /\ sPc = "once"
    /\ sTwice' = simplify_substation_name(sOnce)
    /\ fTwice' = name_filtered(fOnce)
    /\ sPc' = "twice"
    /\ UNCHANGED <<notS, sLabel, sOnce, fOnce>>

SNext ==
    \/ Simplify
    \/ SimplifyAgain

(***************************************************************************)
(* Substation names: join_location_table_to_live_primaries                 *)
(*                                                                         *)
(* live_primaries is the list of the names of the CKAN resources,          *)
(* locations the rows [substation_name, substation_number] of the location *)
(* table, name_mapping the rows [from, to] of the manual mapping           *)
(* (simplified_substation_name_in_live_flows,                              *)
(* simplified_substation_name_in_location_table).  A link is a row of the  *)
(* dataframe the function returns.                                         *)
(***************************************************************************)
L_Albrighton == <<"A", "l", "b", "r", "i", "g", "h", "t", "o", "n", " ", "1", "1", "K", "v", " ", "P", "r", "i", "m", "a", "r", "y", " ", "T", "r", "a", "n", "s", "f", "o", "r", "m", "e", "r", " ", "F", "l", "o", "w", "s">>
L_ParkLane == <<"P", "a", "r", "k", " ", "L", "a", "n", "e", " ", "P", "r", "i", "m", "a", "r", "y", " ", "T", "r", "a", "n", "s", "f", "o", "r", "m", "e", "r", " ", "F", "l", "o", "w", "s">>
L_ParkLn == <<"P", "a", "r", "k", " ", "L", "n", " ", "P", "r", "i", "m", "a", "r", "y", " ", "T", "r", "a", "n", "s", "f", "o", "r", "m", "e", "r", " ", "F", "l", "o", "w", "s">>
N_Albrighton == <<"A", "l", "b", "r", "i", "g", "h", "t", "o", "n">>
N_ParkLane == <<"P", "a", "r", "k", " ", "L", "a", "n", "e">>
N_ParkLaneSStn == <<"P", "a", "r", "k", " ", "L", "a", "n", "e", " ", "3", "3", " ", "1", "1", "k", "v", " ", "S", " ", "S", "t", "n">>
K_ParkLn == <<"P", "a", "r", "k", " ", "L", "n">>

FlowLabels == {L_Albrighton, L_ParkLane, L_ParkLn}
LocationNames == {N_Albrighton, N_ParkLane, N_ParkLaneSStn}

\* simplify_substation_name of the names of the two tables
SimpleNames ==
    [name \in FlowLabels \cup LocationNames |-> simplify_substation_name(name)]

\* the rows the manual mapping can hold, and the mappings: at most one row for
\* a simplified name
MappingRows == <<[from |-> K_ParkLn, to |-> N_ParkLane], [from |-> N_Albrighton, to |-> N_ParkLane]>>
NameMappings == {SelectSeq(MappingRows, LAMBDA m : m \in S) : S \in SUBSET SeqToSet(MappingRows)}

\* the characters in the order of their code points
CodePoints == <<" ", ".", "/", "0", "1", "2", "3", "4", "5", "6", "7", "8", "9", "A", "B", "C", "D", "E", "F", "G", "H", "I", "J", "K", "L", "M", "N", "O", "P", "Q", "R", "S", "T", "U", "V", "W", "X", "Y", "Z", "a", "b", "c", "d", "e", "f", "g", "h", "i", "j", "k", "l", "m", "n", "o", "p", "q", "r", "s", "t", "u", "v", "w", "x", "y", "z">>
CodePoint(c) == CHOOSE i \in DOMAIN CodePoints : CodePoints[i] = c

\* the order of strings in the sort
RECURSIVE StrLess(_, _)
StrLess(a, b) ==
    IF b = <<>> THEN FALSE
    ELSE IF a = <<>> THEN TRUE
    ELSE IF a[1] # b[1] THEN CodePoint(a[1]) < CodePoint(b[1])
    ELSE StrLess(Tail(a), Tail(b))

\* a mutant of KeysJoin: names that begin alike are joined
KeysJoin_fuzzy(a, b) ==
    \/ a = b
    \/ Len(a) >= 6 /\ Len(b) >= 6 /\ SubSeq(a, 1, 6) = SubSeq(b, 1, 6)

\* the join condition on simple_name
KeysJoin(a, b) == a = b

\* lines 41 and 42: the simple_name column
WithSimpleNameLive(live) ==
    [i \in DOMAIN live |-> [name |-> live[i], simple_name |-> SimpleNames[live[i]]]]

WithSimpleNameLocations(locs) ==
    [i \in DOMAIN locs |->
        [substation_name |-> locs[i].substation_name,
         substation_number |-> locs[i].substation_number,
         simple_name |-> SimpleNames[locs[i].substation_name]]]

\* lines 53-58: the left join with the manual mapping; mapped is a cell
LeftJoinRow(row, mapping) ==
    LET found == SelectSeq(mapping, LAMBDA m : m.from = row.simple_name)
    IN  IF found = <<>>
        THEN <<[name |-> row.name, simple_name |-> row.simple_name, mapped |-> NULL]>>
        ELSE [k \in DOMAIN found |->
                 [name |-> row.name, simple_name |-> row.simple_name, mapped |-> {found[k].to}]]

RECURSIVE LeftJoinMapping(_, _)
LeftJoinMapping(live, mapping) ==
    IF live = <<>> THEN <<>>
    ELSE LeftJoinRow(live[1], mapping) \o LeftJoinMapping(Tail(live), mapping)

\* a mutant of Coalesce: the computed name is kept
Coalesce_computed(mapped, simple_name) == simple_name

\* pl.coalesce("simplified_substation_name_in_location_table", "simple_name")
Coalesce(mapped, simple_name) ==
    IF mapped # NULL THEN CHOOSE x \in mapped : TRUE ELSE simple_name

\* lines 59-61
WithCoalescedName(rows) ==
    [i \in DOMAIN rows |->
        [name |-> rows[i].name, mapped |-> rows[i].mapped,
         simple_name |-> Coalesce(rows[i].mapped, rows[i].simple_name)]]

\* lines 63-68: the inner join of one row of the live primaries
LinksOfRow(row, locs) ==
    LET found == SelectSeq(locs, LAMBDA l : KeysJoin(row.simple_name, l.simple_name))
    IN  [k \in DOMAIN found |->
            [substation_name_in_live_primaries |-> row.name,
             simple_name |-> row.simple_name,
             simplified_substation_name_in_location_table |-> row.mapped,
             substation_name_in_location_table |-> found[k].substation_name,
             substation_number |-> found[k].substation_number]]

RECURSIVE InnerJoin(_, _)
InnerJoin(rows, locs) ==
    IF rows = <<>> THEN <<>>
    ELSE LinksOfRow(rows[1], locs) \o InnerJoin(Tail(rows), locs)

\* .sort(by="simple_name"): the orders of the links with indices S in which
\* no link comes before one with a smaller simple_name
RECURSIVE LinkOrders(_, _)
LinkOrders(links, S) ==
    IF S = {} THEN {<<>>}
    ELSE UNION {{<<i>> \o rest : rest \in LinkOrders(links, S \ {i})} :
                   i \in {i \in S : \A j \in S :
                             ~StrLess(links[j].simple_name, links[i].simple_name)}}

SortBySimpleName(links) ==
    {[k \in DOMAIN links |-> links[o[k]]] : o \in LinkOrders(links, DOMAIN links)}

RStart ==
    /\ live_primaries \in SeqsUpTo(FlowLabels, MaxFlows)
    /\ \E names \in SeqsUpTo(LocationNames, MaxEntries) :
          locations = [i \in DOMAIN names |->
                          [substation_name |-> names[i], substation_number |-> i]]
    /\ name_mapping \in NameMappings
    /\ Len(InnerJoin(WithCoalescedName(LeftJoinMapping(WithSimpleNameLive(live_primaries),
                                                       name_mapping)),
                     WithSimpleNameLocations(locations))) <= MaxLinks
    /\ rPc = "start"
    /\ live_primaries_df = <<>>
    /\ rLocations = <<>>
    /\ rLinks = <<>>
    /\ rRaised = ""

RIdle ==
    /\ live_primaries = <<>>
    /\ locations = <<>>
    /\ name_mapping = <<>>
    /\ rPc = "start"
    /\ live_primaries_df = <<>>
    /\ rLocations = <<>>
    /\ rLinks = <<>>
    /\ rRaised = ""

\* pl.DataFrame([]) has no "name" column: line 41 raises
JoinRaises ==
    /\ rPc = "start"
    /\ live_primaries = <<>>
    /\ rPc' = "end"
    /\ rRaised' = "ColumnNotFoundError: name"
    /\ UNCHANGED <<notR, live_primaries, locations, name_mapping,
                   live_primaries_df, rLocations, rLinks>>

\* join_location_table_to_live_primaries returns the links
join_location_table_to_live_primaries ==
    /\ rPc = "start"
    /\ live_primaries # <<>>
    /\ LET keyed == WithCoalescedName(
                        LeftJoinMapping(WithSimpleNameLive(live_primaries), name_mapping))
           locs == WithSimpleNameLocations(locations)
       IN  /\ live_primaries_df' = keyed
           /\ rLocations' = locs
           /\ rLinks' \in SortBySimpleName(InnerJoin(keyed, locs))
    /\ rPc' = "end"
    /\ UNCHANGED <<notR, live_primaries, locations, name_mapping, rRaised>>

RNext ==
    \/ JoinRaises
    \/ join_location_table_to_live_primaries

(***************************************************************************)
(* The two readers of a primary substation CSV:                            *)
(* read_primary_substation_csv (data_nged) and                             *)
(* process_live_primary_substation_flows (nged_data)                       *)
(*                                                                         *)
(* In a file of the long layout a row's unit "" is an empty cell, which    *)
(* pl.read_csv reads as null.  A column of the file that names the         *)
(* substation (site, substation_name) holds FileSite in every row.         *)
(***************************************************************************)
FileSite == "file"

\* df.rename({...}, strict=False) of process_live_primary_substation_flows
RenameFlows(cols) ==
    [i \in DOMAIN cols |->
        CASE cols[i] \in {"time", "ValueDate", "Timestamp"} -> "timestamp"
          [] cols[i] = "MW Inst" -> "MW"
          [] cols[i] = "MVAr Inst" -> "MVAr"
          [] cols[i] = "Derived MVA" -> "MVA"
          [] OTHER -> cols[i]]

\* the row of the dataframe for a CSV row when the substation name, if any,
\* is the one of the file
FlowRowOfFile(csvRow, kept) ==
    [substation_name |-> IF "substation_name" \in kept THEN {FileSite} ELSE NULL,
     timestamp |-> {csvRow.time[1]},
     MW |-> IF "MW" \in kept THEN {csvRow.v} ELSE NULL,
     MVA |-> IF "MVA" \in kept THEN {csvRow.v} ELSE NULL,
     MVAr |-> IF "MVAr" \in kept THEN {csvRow.v} ELSE NULL]

\* df.sort("timestamp"): the orders of the rows with indices S in which no
\* row comes before one with an earlier timestamp
RECURSIVE TimestampOrders(_, _)
TimestampOrders(rows, S) ==
    IF S = {} THEN {<<>>}
    ELSE UNION {{<<i>> \o rest : rest \in TimestampOrders(rows, S \ {i})} :
                   i \in {i \in S : \A j \in S : ~(TsOf(rows[j]) < TsOf(rows[i]))}}

SortByTimestamp(rows) ==
    {[k \in DOMAIN rows |-> rows[o[k]]] : o \in TimestampOrders(rows, DOMAIN rows)}

\* (df["unit"] == u).all(): a null unit compares to null, which all() ignores
AllUnits(csv, u) == \A i \in DOMAIN csv.rows : csv.rows[i].unit \in {u, ""}

\* df['unit'].unique().to_list(), the units the ValueError names
DistinctUnits(csv) == {csv.rows[i].unit : i \in DOMAIN csv.rows}

\* process_live_primary_substation_flows: the results [ok, df, err] it can
\* give, one for each order the sort can leave equal timestamps in
process_live_primary_substation_flows(csv) ==
    LET cols0 == csv.header
        isLong == "unit" \in SeqToSet(cols0) /\ "value" \in SeqToSet(cols0)
        allMVA == AllUnits(csv, "MVA")
        allMW == AllUnits(csv, "MW")
        cols1 == IF ~isLong THEN cols0
                 ELSE IF allMVA THEN Rename(cols0, "value", "MVA")
                 ELSE Rename(cols0, "value", "MW")
        cols2 == RenameFlows(cols1)
        kept == SeqToSet(SchemaCols) \cap SeqToSet(cols2)
        rows == [i \in DOMAIN csv.rows |-> FlowRowOfFile(csv.rows[i], kept)]
    IN  IF csv.header = <<>> THEN {Failure("NoDataError: empty CSV")}
        ELSE IF isLong /\ ~allMVA /\ ~allMW
             THEN {Failure("ValueError: Unexpected unit in CSV")}
        ELSE IF HasDuplicates(cols1) \/ HasDuplicates(cols2) THEN {Failure("DuplicateError")}
        ELSE IF "timestamp" \in kept /\ \E i \in DOMAIN csv.rows : csv.rows[i].time = <<>>
             THEN {Failure("InvalidOperationError: cast")}
        ELSE IF "timestamp" \notin kept THEN {Failure("ColumnNotFoundError: timestamp")}
        ELSE {IF validate([cols |-> InOrder(SchemaCols, kept), rows |-> q], TRUE) # "ok"
              THEN Failure(validate([cols |-> InOrder(SchemaCols, kept), rows |-> q], TRUE))
              ELSE [ok |-> TRUE, df |-> [cols |-> InOrder(SchemaCols, kept), rows |-> q],
                    err |-> ""] :
                 q \in SortByTimestamp(rows)}

\* the files the readers are given
NHeaders ==
    {<<"ValueDate", "MW Inst", "MVAr Inst", "Volts Inst">>,
     <<"ValueDate", "MVA", "Volts">>,
     <<"site", "time", "unit", "value">>,
     <<"Timestamp", "MW">>,
     <<"MW", "Volts">>,
     <<"substation_name", "ValueDate", "MW">>}

NTimes == {<<1>>, <<2>>, <<>>}
NValues == {1, 2, PowerMax + 1}
NUnits(header) == IF "unit" \in SeqToSet(header) THEN {"MW", "MVA", "kV", ""} ELSE {""}

NoOutcome == [ok |-> FALSE, df |-> EmptyFrame, err |-> "none"]

NStart ==
    /\ \E header \in NHeaders :
          \E rows \in SeqsUpTo([time : NTimes, unit : NUnits(header), v : NValues], MaxCsvRows) :
              nCsv = [header |-> header, rows |-> rows]
    /\ nLabel \in Names
    /\ nReader \in {"read_primary_substation_csv", "process_live_primary_substation_flows"}
    /\ nPc = "start"
    /\ nResult = NoOutcome
    /\ nUnits = {}

NIdle ==
    /\ nCsv = [header |-> <<>>, rows |-> <<>>]
    /\ nLabel = "a"
    /\ nReader = "read_primary_substation_csv"
    /\ nPc = "start"
    /\ nResult = NoOutcome
    /\ nUnits = {}

\* the units the error of this result names
UnitsNamed(result) ==
    IF result.err = "ValueError: Unexpected unit in CSV" THEN DistinctUnits(nCsv) ELSE {}

\* read_primary_substation_csv(csv_data, substation_name=label)
ReadPrimary ==
    /\ nPc = "start" /\ nReader = "read_primary_substation_csv"
    /\ nResult' = read_primary_substation_csv(nCsv, nLabel)
    /\ nUnits' = UnitsNamed(nResult')
    /\ nPc' = "end"
    /\ UNCHANGED <<notN, nCsv, nLabel, nReader>>

\* process_live_primary_substation_flows(csv_data): the label is no argument
ProcessFlows ==
    /\ nPc = "start" /\ nReader = "process_live_primary_substation_flows"
    /\ nResult' \in process_live_primary_substation_flows(nCsv)
    /\ nUnits' = UnitsNamed(nResult')
    /\ nPc' = "end"
    /\ UNCHANGED <<notN, nCsv, nLabel, nReader>>

NNext ==
    \/ ReadPrimary
    \/ ProcessFlows

(***************************************************************************)
(* SubstationFlows.check_integrity                                         *)
(*                                                                         *)
(* iDf is the batch, iTsKind the dtype of its timestamp column (a datetime *)
(* with a time zone, a datetime without, or text), iNow the hour           *)
(* datetime.now(timezone.utc) gives, iMaxAge the argument max_age_hours.   *)
(* Timestamps are hours.  A message is [kind, detail].                     *)
(***************************************************************************)
\* max_age_hours: int = 24
DefaultMaxAgeHours == 24

TsKinds == {"aware", "naive", "text"}

\* cls.validate(df): the dtype check of the timestamp field, then validate
\* with allow_missing_columns at its default
ValidateBatch(df, tsKind) ==
    IF validate(df, FALSE) = "ok" /\ "timestamp" \in ColSet(df) /\ tsKind = "text"
    THEN "DataFrameValidationError"
    ELSE validate(df, FALSE)

\* a mutant of TryValidate: no except clause
TryValidate_uncaught(df, tsKind) ==
    [errors |-> <<>>,
     raised |-> IF ValidateBatch(df, tsKind) = "ok" THEN "" ELSE ValidateBatch(df, tsKind)]

\* lines 55-58: try: cls.validate(df) except Exception as e: errors.append
TryValidate(df, tsKind) ==
    [errors |-> IF ValidateBatch(df, tsKind) = "ok" THEN <<>>
                ELSE <<[kind |-> "Validation failed", detail |-> {ValidateBatch(df, tsKind)}]>>,
     raised |-> ""]

\* df["timestamp"].max(): nulls are skipped; NULL when no value is left
MaxTimestamp(df) ==
    LET present == UNION {r.timestamp : r \in SeqToSet(df.rows)}
    IN  IF present = {} THEN NULL
        ELSE {CHOOSE t \in present : \A u \in present : u <= t}

\* a mutant of IsStale: a reading exactly max_age old is stale as well
IsStale_inclusive(max_ts, now, max_age_hours) == max_ts <= now - max_age_hours

\* line 68: max_ts < now - timedelta(hours=max_age_hours)
IsStale(max_ts, now, max_age_hours) == max_ts < now - max_age_hours

\* lines 60-73: the messages about the timestamps
Freshness(df, tsKind, now, max_age_hours) ==
    IF "timestamp" \notin ColSet(df)
    THEN <<[kind |-> "Missing timestamp column", detail |-> NULL]>>
    ELSE IF tsKind = "text" \/ MaxTimestamp(df) = NULL
    THEN <<[kind |-> "No data in timestamp column", detail |-> NULL]>>
    ELSE IF IsStale(CHOOSE t \in MaxTimestamp(df) : TRUE, now, max_age_hours)
    THEN <<[kind |-> "Data is stale", detail |-> MaxTimestamp(df)]>>
    ELSE <<>>

\* the batches: with or without each column, timestamps present or null
IPowerVals == {1, PowerMax + 1}
IRows(cols) ==
    {[substation_name |-> IF "substation_name" \in cols THEN {"a"} ELSE NULL,
      timestamp |-> ts, MW |-> mw, MVA |-> NULL, MVAr |-> NULL] :
        ts \in (IF "timestamp" \in cols THEN {NULL} \cup {{t} : t \in Times} ELSE {NULL}),
        mw \in (IF "MW" \in cols THEN {{x} : x \in IPowerVals} ELSE {NULL})}

\* the hours now can be: around the default max_age after the timestamps
NowValues == DefaultMaxAgeHours..(DefaultMaxAgeHours + MaxTime + 1)

IStart ==
    /\ \E C \in SUBSET {"substation_name", "timestamp", "MW"} :
          \E rs \in SeqsUpTo(IRows(C), MaxBatchRows) :
              iDf = [cols |-> InOrder(SchemaCols, C), rows |-> rs]
    /\ iTsKind \in TsKinds
    /\ iNow \in NowValues
    /\ iMaxAge \in {DefaultMaxAgeHours, DefaultMaxAgeHours + 1}
    /\ iPc = "start"
    /\ iErrors = <<>>
    /\ iRaised = ""

IIdle ==
    /\ iDf = EmptyFrame
    /\ iTsKind = "aware"
    /\ iNow = DefaultMaxAgeHours
    /\ iMaxAge = DefaultMaxAgeHours
    /\ iPc = "start"
    /\ iErrors = <<>>
    /\ iRaised = ""

\* check_integrity(df, max_age_hours): the list of messages it returns, or
\* the exception that leaves it
check_integrity ==
    /\ iPc = "start"
    /\ LET checked == TryValidate(iDf, iTsKind)
       IN  IF checked.raised # ""
           THEN /\ iRaised' = checked.raised
                /\ iErrors' = <<>>
           ELSE /\ iRaised' = ""
                /\ iErrors' = checked.errors \o Freshness(iDf, iTsKind, iNow, iMaxAge)
    /\ iPc' = "end"
    /\ UNCHANGED <<notI, iDf, iTsKind, iNow, iMaxAge>>

INext ==
    \/ check_integrity

(***************************************************************************)
(* Specifications                                                          *)
(***************************************************************************)
FirstIdle == VIdle /\ BIdle /\ CIdle /\ MIdle /\ AIdle /\ WIdle
LaterIdle == SIdle /\ RIdle /\ NIdle /\ IIdle

VInit == VStart /\ BIdle /\ CIdle /\ MIdle /\ AIdle /\ WIdle /\ LaterIdle
VNext == \E am \in BOOLEAN : Validate(am)
SpecValidate == VInit /\ [][VNext]_vars

BInit == BStart /\ VIdle /\ CIdle /\ MIdle /\ AIdle /\ WIdle /\ LaterIdle
SpecBatch == BInit /\ [][BNext]_vars

CInit == CStart /\ VIdle /\ BIdle /\ MIdle /\ AIdle /\ WIdle /\ LaterIdle
SpecCatalog == CInit /\ [][CNext]_vars

MInit == MStart /\ VIdle /\ BIdle /\ CIdle /\ AIdle /\ WIdle /\ LaterIdle
SpecMerge == MInit /\ [][MNext]_vars

AInit == AStart /\ VIdle /\ BIdle /\ CIdle /\ MIdle /\ WIdle /\ LaterIdle
SpecAlgebra == AInit /\ [][ANext]_vars

WInit == WStart /\ VIdle /\ BIdle /\ CIdle /\ MIdle /\ AIdle /\ LaterIdle
SpecConcurrent == WInit /\ [][WNext]_vars

SInit == SStart /\ FirstIdle /\ RIdle /\ NIdle /\ IIdle
SpecSimplify == SInit /\ [][SNext]_vars

RInit == RStart /\ FirstIdle /\ SIdle /\ NIdle /\ IIdle
SpecResolve == RInit /\ [][RNext]_vars

NInit == NStart /\ FirstIdle /\ SIdle /\ RIdle /\ IIdle
SpecReaders == NInit /\ [][NNext]_vars

IInit == IStart /\ FirstIdle /\ SIdle /\ RIdle /\ NIdle
SpecIntegrity == IInit /\ [][INext]_vars

(***************************************************************************)
(* C1                                                                      *)
(***************************************************************************)
VHasMWorMVA == "MW" \in ColSet(vDf) \/ "MVA" \in ColSet(vDf)

\* what the schema asks of a dataframe, stated on the dataframe itself
VSchemaChecksPass ==
    /\ vAllowMissing \/ RequiredCols \subseteq ColSet(vDf)
    /\ ColSet(vDf) \subseteq SeqToSet(SchemaCols)
    /\ \A i \in DOMAIN vDf.rows :
          /\ "substation_name" \in ColSet(vDf) => vDf.rows[i].substation_name # NULL
          /\ "timestamp" \in ColSet(vDf) => vDf.rows[i].timestamp # NULL
          /\ \A x \in vDf.rows[i].MW \cup vDf.rows[i].MVA \cup vDf.rows[i].MVAr :
                -1000 <= x /\ x <= 1000

RECURSIVE FlattenFrom(_, _)
FlattenFrom(st, m) ==
    IF m \notin Months THEN <<>> ELSE st[m] \o FlattenFrom(st, m + 1)

\* the dataset read back: the partitions in the order of their months
Flatten(st) == FlattenFrom(st, 1)

\* the persisted history of one substation
History(st, n) == SelectSeq(Flatten(st), LAMBDA r : NameOf(r) = n)

\* the records the run ingested for one substation
NewRecords(n) == SelectSeq(ConcatRows(newFrames), LAMBDA r : NameOf(r) = n)

TsSet(rows) == {TsOf(rows[i]) : i \in DOMAIN rows}

StrictlyIncreasing(rows) ==
    \A i, j \in DOMAIN rows : i < j => TsOf(rows[i]) < TsOf(rows[j])

\* C2: after every update of a substation's persisted history its timestamps
\* are strictly increasing, hence no timestamp occurs twice, and it has as
\* many records as there are distinct timestamps in the former history and the
\* newly ingested records together.
C2_HistoryInvariants ==
    mOutcome = "ok" =>
        \A n \in MNames :
            /\ StrictlyIncreasing(History(store, n))
            /\ Len(History(store, n)) =
                  Cardinality(TsSet(History(oldStore, n)) \cup TsSet(NewRecords(n)))

\* C3: a timestamp that is in the former history and among the newly ingested
\* records has exactly one record in the updated history, and that record is
\* a newly ingested one.
C3_LastWriteWins ==
    mOutcome = "ok" =>
        \A n \in MNames :
            \A t \in TsSet(History(oldStore, n)) \cap TsSet(NewRecords(n)) :
                LET at == SelectSeq(History(store, n), LAMBDA r : TsOf(r) = t)
                IN  /\ Len(at) = 1
                    /\ \E i \in DOMAIN NewRecords(n) : NewRecords(n)[i] = at[1]

\* C6: region frames whose sets of columns differ are consolidated into the
\* persisted dataset: the materialisation does not raise, and every column a
\* region frame has keeps its values in the dataset.
C6_ConsolidatesDifferingColumns ==
    mOutcome # "none" =>
        /\ mOutcome = "ok"
        /\ \A k \in DOMAIN newFrames : \A i \in DOMAIN newFrames[k].rows :
               \E j \in DOMAIN Flatten(store) : Flatten(store)[j] = newFrames[k].rows[i]

(***************************************************************************)
(* C4, C5: the merge of lines 230-240 on record sets                       *)
(***************************************************************************)
\* C4: merging a history with an exact copy of itself gives the history
\* back: merge(H, H) = H.
C4_MergeSelfIsIdentity ==
    aPc # "start" /\ StrictlyIncreasing(aA.rows) =>
        /\ aAA.ok
        /\ aAA.df = aA

\* no two records of a set share a timestamp, and no two sets share one
PairwiseDisjoint ==
    /\ \A f \in {aA, aB, aC} : Cardinality(TsSet(f.rows)) = Len(f.rows)
    /\ TsSet(aA.rows) \cap TsSet(aB.rows) = {}
    /\ TsSet(aA.rows) \cap TsSet(aC.rows) = {}
    /\ TsSet(aB.rows) \cap TsSet(aC.rows) = {}

InFlight(w) == wPc[w] = "writing" /\ wTodo[w] # {}

\* C7: updates of a substation's persisted history are serialized, never two
\* in flight at once, and no update is lost: when both runs have returned,
\* every timestamp either run ingested has its record in the dataset.
C7_SerializedNoLostUpdate ==
    /\ Cardinality({w \in Writers : InFlight(w)}) <= 1
    /\ (\A w \in Writers : wPc[w] = "done") =>
          \A w \in Writers : \A i \in DOMAIN wDf[w] :
              \E j \in DOMAIN Flatten(wStore) :
                  /\ NameOf(Flatten(wStore)[j]) = NameOf(wDf[w][i])
                  /\ TsOf(Flatten(wStore)[j]) = TsOf(wDf[w][i])

(***************************************************************************)
(* C8                                                                      *)
(***************************************************************************)
\* what reading the file of substation n on disk gives
ReadOnDisk(n) == read_primary_substation_csv(CHOOSE csv \in bDisk[n] : TRUE, n)

OutputRows == UNION {SeqToSet(df.rows) : df \in bOutput}

Observations == SelectSeq(yielded, LAMBDA e : e.kind = "AssetObservation")

\* C8: a file that raises never keeps another file of the batch from being
\* processed: once the loop of _process_region_from_disk is over, every CSV
\* file of the region was processed and observed, and the Output holds the
\* rows of every file that was read and is not empty; download_live_primary_data
\* ends with one result per CSV resource, with the dataframe of every resource
\* that was fetched and read.
C8_BatchCompletesEveryFile ==
    /\ bMode = "disk" /\ bPc \in {"output", "done"} =>
          /\ total_count = Len(csv_files)
          /\ Len(Observations) = Len(csv_files)
          /\ \A i \in DOMAIN csv_files :
                Observations[i].substation = csv_files[i]
    /\ bMode = "disk" /\ bPc = "done" =>
          \A i \in DOMAIN csv_files :
              ReadOnDisk(csv_files[i]).ok =>
                  SeqToSet(ReadOnDisk(csv_files[i]).df.rows) \subseteq OutputRows
    /\ bMode = "stream" /\ bPc = "done" =>
          /\ Len(stResults) = Len(get_substation_resource_urls(bResources))
          /\ \A k \in DOMAIN stResults :
                \A csv \in stFetched[k].csv :
                    LET r == read_primary_substation_csv(csv, stResults[k].substation_name)
                    IN  r.ok => stResults[k].df = {r.df} /\ stResults[k].errors = <<>>

\* a region was processed in which one file raised and a file after it was
\* read, and its rows are in the Output
C8_Witness ==
    /\ bMode = "disk" /\ bPc = "done"
    /\ \E i, j \in DOMAIN csv_files :
          /\ i < j
          /\ ~ReadOnDisk(csv_files[i]).ok
          /\ ReadOnDisk(csv_files[j]).ok
          /\ ReadOnDisk(csv_files[j]).df.rows # <<>>
          /\ SeqToSet(ReadOnDisk(csv_files[j]).df.rows) \subseteq OutputRows

(***************************************************************************)
(* C9                                                                      *)
(***************************************************************************)
\* C9: a download that fails is the failure of that resource only: when the
\* download step is over, in the download to disk as in the streaming
\* download, every CSV resource of the region was attempted.
C9_EveryResourceAttempted ==
    /\ bMode = "disk" /\ bPc \in {"failed", "process", "output", "done"} =>
          dlAttempted = DOMAIN dlList
    /\ bMode = "stream" /\ bPc \in {"failed", "done"} /\ stFetched # <<>> =>
          /\ bPc = "done"
          /\ {stFetched[k].index : k \in DOMAIN stFetched} =
                {i \in DOMAIN bResources : IsSubstationCsv(bResources[i])}

(***************************************************************************)
(* C10                                                                     *)
(***************************************************************************)
\* no CSV resource the portal lists gives a table that can be fetched, read
\* and validated
CatalogUnloadable ==
    \A i \in DOMAIN cCandidates :
        IsCsv(cCandidates[i]) => ~LoadCandidate(cCandidates[i]).ok

\* C10: when the catalog cannot be fetched, read or validated from any
\* candidate resource, loading it ends in an error and returns no table.
C10_UnloadableCatalogRaises ==
    /\ cPc = "end"
    /\ CatalogUnloadable
    /\ \E i \in DOMAIN cCandidates : IsCsv(cCandidates[i])
    => cResult.kind = "raised"

(***************************************************************************)
(* C11, C12, C13, C15: the links of the live primaries to the locations    *)
(***************************************************************************)
\* the rows of the manual mapping for a simplified name
OverridesOf(key) == SelectSeq(name_mapping, LAMBDA m : m.from = key)

\* the links of the resource name
LinksOf(name) == SelectSeq(rLinks, LAMBDA l : l.substation_name_in_live_primaries = name)

\* a resource whose simplified name has no row in the manual mapping and is
\* the simplified name of two locations with different substation numbers
Ambiguous(i) ==
    LET key == SimpleNames[live_primaries[i]]
    IN  /\ OverridesOf(key) = <<>>
        /\ \E j, k \in DOMAIN locations :
              /\ locations[j].substation_number # locations[k].substation_number
              /\ SimpleNames[locations[j].substation_name] = key
              /\ SimpleNames[locations[k].substation_name] = key

\* C11: when two locations with different substation numbers share a
\* simplified name and no mapping row applies to a resource with that
\* simplified name, resolving raises a ResolutionAmbiguity: neither one link
\* nor links to both locations are returned.
C11_AmbiguityRaised ==
    rPc = "end" /\ (\E i \in DOMAIN live_primaries : Ambiguous(i)) =>
        /\ rRaised = "ResolutionAmbiguity"
        /\ rLinks = <<>>

\* C12: a resource whose simplified name has a row in the manual mapping is
\* joined under the mapped name, a resource without a row under its computed
\* simplified name, and the simplified names of the locations are the computed
\* ones whatever the mapping holds.
C12_OverrideReplacesKey ==
    rPc = "end" /\ rRaised = "" =>
        /\ Len(live_primaries_df) = Len(live_primaries)
        /\ \A i \in DOMAIN live_primaries_df :
              LET computed == SimpleNames[live_primaries[i]]
              IN  /\ live_primaries_df[i].name = live_primaries[i]
                  /\ OverridesOf(computed) # <<>> =>
                        live_primaries_df[i].simple_name = OverridesOf(computed)[1].to
                  /\ OverridesOf(computed) = <<>> =>
                        live_primaries_df[i].simple_name = computed
                  /\ \A j \in DOMAIN locations :
                        (live_primaries_df[i].simple_name =
                             SimpleNames[locations[j].substation_name])
                        <=> \E l \in DOMAIN rLinks :
                               /\ rLinks[l].substation_name_in_live_primaries = live_primaries[i]
                               /\ rLinks[l].substation_name_in_location_table =
                                     locations[j].substation_name
                               /\ rLinks[l].substation_number = locations[j].substation_number
        /\ Len(rLocations) = Len(locations)
        /\ \A j \in DOMAIN rLocations :
              rLocations[j].simple_name = SimpleNames[locations[j].substation_name]

\* "Park Ln" is mapped to "Park Lane" and linked to the location of that
\* name, next to a resource that has no mapping row and is linked under its
\* computed name
C12_Witness ==
    /\ rPc = "end" /\ rRaised = ""
    /\ live_primaries = <<L_ParkLn, L_Albrighton>>
    /\ OverridesOf(K_ParkLn) # <<>>
    /\ OverridesOf(N_Albrighton) = <<>>
    /\ \E l \in DOMAIN rLinks :
          /\ rLinks[l].substation_name_in_live_primaries = L_ParkLn
          /\ rLinks[l].simple_name = N_ParkLane
          /\ rLinks[l].substation_name_in_location_table = N_ParkLane
    /\ \E l \in DOMAIN rLinks :
          /\ rLinks[l].substation_name_in_live_primaries = L_Albrighton
          /\ rLinks[l].simple_name = N_Albrighton

\* C13: every link pairs a resource and a location whose simplified names
\* (the resource's after the mapping) are equal, and a resource whose
\* simplified name is that of no location has no link, however alike the names.
C13_ExactJoinOnly ==
    rPc = "end" /\ rRaised = "" =>
        /\ \A l \in DOMAIN rLinks :
              \E i \in DOMAIN live_primaries_df, j \in DOMAIN rLocations :
                  /\ rLinks[l].substation_name_in_live_primaries = live_primaries_df[i].name
                  /\ rLinks[l].substation_name_in_location_table = rLocations[j].substation_name
                  /\ rLinks[l].substation_number = rLocations[j].substation_number
                  /\ rLinks[l].simple_name = live_primaries_df[i].simple_name
                  /\ live_primaries_df[i].simple_name = rLocations[j].simple_name
        /\ \A i \in DOMAIN live_primaries_df :
              (\A j \in DOMAIN rLocations :
                  live_primaries_df[i].simple_name # rLocations[j].simple_name)
              => LinksOf(live_primaries_df[i].name) = <<>>

\* "Park Ln" without a mapping row gets no link although the location
\* "Park Lane" is there and the resource "Park Lane" is linked to it
C13_Witness ==
    /\ rPc = "end" /\ rRaised = ""
    /\ live_primaries = <<L_ParkLn, L_ParkLane>>
    /\ OverridesOf(K_ParkLn) = <<>>
    /\ \E j \in DOMAIN locations : locations[j].substation_name = N_ParkLane
    /\ LinksOf(L_ParkLn) = <<>>
    /\ LinksOf(L_ParkLane) # <<>>

\* C15: "Albrighton 11Kv Primary Transformer Flows" simplifies to
\* "Albrighton", so does the location name "Albrighton", and with no mapping
\* row for it the resource is linked to that location under the simplified
\* name "Albrighton", the mapping having taken no part.
C15_AlbrightonLinked ==
    /\ rPc = "end"
    /\ \E i \in DOMAIN live_primaries : live_primaries[i] = L_Albrighton
    /\ \E j \in DOMAIN locations : locations[j].substation_name = N_Albrighton
    /\ OverridesOf(N_Albrighton) = <<>>
    => /\ simplify_substation_name(L_Albrighton) = N_Albrighton
       /\ simplify_substation_name(N_Albrighton) = N_Albrighton
       /\ rRaised = ""
       /\ LinksOf(L_Albrighton) # <<>>
       /\ \A l \in DOMAIN LinksOf(L_Albrighton) :
             /\ LinksOf(L_Albrighton)[l].simple_name = N_Albrighton
             /\ LinksOf(L_Albrighton)[l].substation_name_in_location_table = N_Albrighton
             /\ LinksOf(L_Albrighton)[l].simplified_substation_name_in_location_table = NULL

\* the Albrighton resource and the Albrighton location, linked
C15_Witness ==
    /\ rPc = "end" /\ rRaised = ""
    /\ live_primaries = <<L_Albrighton>>
    /\ Len(locations) = 2
    /\ locations[2].substation_name = N_Albrighton
    /\ OverridesOf(N_Albrighton) = <<>>
    /\ Len(rLinks) = 1
    /\ rLinks[1].substation_name_in_live_primaries = L_Albrighton
    /\ rLinks[1].substation_name_in_location_table = N_Albrighton
    /\ rLinks[1].simple_name = N_Albrighton

(***************************************************************************)
(* C14: simplification applied twice                                       *)
(***************************************************************************)
\* C14: simplification is idempotent: simplifying the simplified label gives
\* the simplified label back, for every label.
C14_SimplifyIdempotent ==
    sPc = "twice" => sTwice = sOnce

(***************************************************************************)
(* C16..C20: the readers of one CSV file                                   *)
(***************************************************************************)
NDone == nPc = "end"
NLong == "unit" \in SeqToSet(nCsv.header) /\ "value" \in SeqToSet(nCsv.header)
EveryUnitIs(u) == \A i \in DOMAIN nCsv.rows : nCsv.rows[i].unit = u
UnitError == "ValueError: Unexpected unit in CSV"

\* the records hold the file's values in column c and nothing in the other
\* power columns
OnlyPopulated(c) ==
    /\ \A i \in DOMAIN nResult.df.rows :
          /\ nResult.df.rows[i][c] # NULL
          /\ \A d \in PowerCols \ {c} : nResult.df.rows[i][d] = NULL
    /\ {<<nResult.df.rows[i].timestamp, nResult.df.rows[i][c]>> : i \in DOMAIN nResult.df.rows}
         = {<<{nCsv.rows[i].time[1]}, {nCsv.rows[i].v}>> : i \in DOMAIN nCsv.rows}

\* C16: of a long-format file (unit and value columns) whose every row has
\* the unit MW only MW is populated, from value; of one whose every row has
\* the unit MVA only MVA is populated; in every other case the reader fails
\* with an error that names every distinct unit of the file.
C16_LongFormatUnits ==
    (NDone /\ NLong)
    => /\ (nCsv.rows # <<>> /\ EveryUnitIs("MW"))
            => /\ nResult.err # UnitError
               /\ nResult.ok => OnlyPopulated("MW")
       /\ (nCsv.rows # <<>> /\ EveryUnitIs("MVA"))
            => /\ nResult.err # UnitError
               /\ nResult.ok => OnlyPopulated("MVA")
       /\ (~EveryUnitIs("MW") /\ ~EveryUnitIs("MVA"))
            => /\ ~nResult.ok
               /\ nResult.err = UnitError
               /\ nUnits = DistinctUnits(nCsv)

\* C17: the records a reader returns are in ascending order of timestamp,
\* whichever reader it is and whatever the order of the rows of the file.
C17_SortedByTimestamp ==
    (NDone /\ nResult.ok)
    => \A i, j \in DOMAIN nResult.df.rows :
          i < j => ~(TsOf(nResult.df.rows[j]) < TsOf(nResult.df.rows[i]))

\* the headers of a file that become the canonical column c
HeadersOf(c) ==
    CASE c = "timestamp" -> {"timestamp", "ValueDate", "Timestamp", "time"}
      [] c = "MW" -> {"MW", "MW Inst"} \cup (IF NLong THEN {"value"} ELSE {})
      [] c = "MVA" -> {"MVA", "Derived MVA"} \cup (IF NLong THEN {"value"} ELSE {})
      [] c = "MVAr" -> {"MVAr", "MVAr Inst"}
      [] OTHER -> {c}

ExampleHeader == <<"ValueDate", "MW Inst", "MVAr Inst", "Volts Inst">>
ReadableRows ==
    \A i \in DOMAIN nCsv.rows : nCsv.rows[i].time # <<>> /\ nCsv.rows[i].v <= PowerMax

\* C18: the columns of the output are the canonical columns that are present
\* after the renaming: no other column is kept, no canonical column that the
\* file lacks is invented, every canonical column of the file is kept; the
\* file with the headers ValueDate, MW Inst, MVAr Inst, Volts Inst is read
\* without error, though it lacks the other historical headers, and gives the
\* time and power columns timestamp, MW, MVAr.
C18_CanonicalColumnsOnly ==
    NDone
    => /\ nResult.ok
            => /\ ColSet(nResult.df) \subseteq SeqToSet(SchemaCols)
               /\ ~HasDuplicates(nResult.df.cols)
               /\ \A c \in ColSet(nResult.df) :
                     \/ HeadersOf(c) \cap SeqToSet(nCsv.header) # {}
                     \/ c = "substation_name" /\ nReader = "read_primary_substation_csv"
               /\ \A c \in SeqToSet(SchemaCols) \cap SeqToSet(nCsv.header) :
                     c \in ColSet(nResult.df)
       /\ (nCsv.header = ExampleHeader /\ ReadableRows)
            => /\ nResult.ok
               /\ ColSet(nResult.df) \ {"substation_name"} = {"timestamp", "MW", "MVAr"}
               /\ \A i \in DOMAIN nResult.df.rows :
                     /\ nResult.df.rows[i].MW # NULL
                     /\ nResult.df.rows[i].MVAr # NULL
                     /\ nResult.df.rows[i].MVA = NULL

\* the example file, with rows, read
C18_Witness ==
    /\ NDone /\ nReader = "read_primary_substation_csv"
    /\ nCsv.header = ExampleHeader
    /\ Len(nCsv.rows) = MaxCsvRows
    /\ nResult.ok
    /\ nResult.df.cols = <<"substation_name", "timestamp", "MW", "MVAr">>
    /\ Len(nResult.df.rows) = MaxCsvRows

\* C19: every record a reader returns has the label its caller supplied as
\* substation_name, whatever columns naming the substation the file has.
C19_CallerLabelOnEveryRecord ==
    (NDone /\ nResult.ok)
    => /\ "substation_name" \in ColSet(nResult.df)
       /\ \A i \in DOMAIN nResult.df.rows : nResult.df.rows[i].substation_name = {nLabel}

\* the class of the exception an error is raised as
ErrorClass(err) ==
    CASE err \in {UnitError, "ValueError"} -> "ValueError"
      [] err = "DataFrameValidationError" -> "DataFrameValidationError"
      [] err = "ColumnNotFoundError: timestamp" -> "ColumnNotFoundError"
      [] err = "ComputeError: strptime" -> "ComputeError"
      [] err = "InvalidOperationError: cast" -> "InvalidOperationError"
      [] err = "DuplicateError" -> "DuplicateError"
      [] err = "NoDataError: empty CSV" -> "NoDataError"
      [] OTHER -> "none"

NTimeHeaders == {"ValueDate", "Timestamp", "time"}
NoTimeColumn == SeqToSet(nCsv.header) \cap NTimeHeaders = {}
UnparseableTime ==
    /\ ~NoTimeColumn
    /\ \E i \in DOMAIN nCsv.rows : nCsv.rows[i].time = <<>>

\* C20: a file with none of the time columns ValueDate, Timestamp, time, or
\* with a timestamp that cannot be parsed, is refused: no records, and an
\* error of the class of the mixed-unit error, which is not the class of a
\* validation error.
C20_TimeFailuresAreFormatErrors ==
    (NDone /\ (NoTimeColumn \/ UnparseableTime))
    => /\ ~nResult.ok
       /\ nResult.df.rows = <<>>
       /\ ErrorClass(nResult.err) = ErrorClass(UnitError)
       /\ ErrorClass(nResult.err) # "DataFrameValidationError"

(***************************************************************************)
(* C21, C22: check_integrity                                               *)
(***************************************************************************)
IDone == iPc = "end"
EntriesOf(kind) == SelectSeq(iErrors, LAMBDA e : e.kind = kind)

\* C21: check_integrity never raises, whatever the batch: it returns a list
\* of messages, and when validate refuses the batch the refusal is an entry
\* of the list (and there is no such entry when validate accepts the batch).
C21_IntegrityNeverRaises ==
    IDone
    => /\ iRaised = ""
       /\ ValidateBatch(iDf, iTsKind) # "ok"
            => /\ Len(EntriesOf("Validation failed")) = 1
               /\ iErrors[1] = [kind |-> "Validation failed",
                                detail |-> {ValidateBatch(iDf, iTsKind)}]
       /\ ValidateBatch(iDf, iTsKind) = "ok" => EntriesOf("Validation failed") = <<>>
       /\ "timestamp" \notin ColSet(iDf) => Len(EntriesOf("Missing timestamp column")) = 1
       /\ ("timestamp" \in ColSet(iDf) /\ (iDf.rows = <<>> \/ iTsKind = "text"))
            => Len(EntriesOf("No data in timestamp column")) = 1

\* a batch that validate refuses and that has timestamps without a time
\* zone: the refusal and nothing else is in the list
C21_Witness ==
    /\ IDone /\ iRaised = ""
    /\ iTsKind = "naive"
    /\ Len(iDf.rows) = MaxBatchRows
    /\ ValidateBatch(iDf, iTsKind) = "DataFrameValidationError"
    /\ Len(iErrors) = 1
    /\ iErrors[1].kind = "Validation failed"

\* the timestamps of the batch, when its timestamp column holds datetimes
TimestampsOfBatch ==
    IF "timestamp" \in ColSet(iDf) /\ iTsKind # "text"
    THEN UNION {iDf.rows[k].timestamp : k \in DOMAIN iDf.rows}
    ELSE {}

\* C22: the list has exactly one staleness entry when the latest timestamp
\* of the batch is before now minus max_age, and none when it is at or after
\* now minus max_age (or when the batch has no timestamp).
C22_StaleExactlyWhenOlderThanMaxAge ==
    IDone
    => /\ (TimestampsOfBatch # {} /\ \A t \in TimestampsOfBatch : t < iNow - iMaxAge)
            => /\ Len(EntriesOf("Data is stale")) = 1
               /\ \A k \in DOMAIN iErrors :
                     iErrors[k].kind = "Data is stale"
                     => iErrors[k].detail \subseteq TimestampsOfBatch
       /\ (\E t \in TimestampsOfBatch : t >= iNow - iMaxAge)
            => EntriesOf("Data is stale") = <<>>
       /\ TimestampsOfBatch = {} => EntriesOf("Data is stale") = <<>>

\* with the default max_age, a batch whose latest reading is exactly max_age
\* old, next to an older reading: not stale
C22_Witness ==
    /\ IDone
    /\ iMaxAge = DefaultMaxAgeHours
    /\ Len(iDf.rows) = 2
    /\ iDf.rows[1].timestamp = {iNow - iMaxAge}
    /\ iDf.rows[2].timestamp = {iNow - iMaxAge - 1}
    /\ EntriesOf("Data is stale") = <<>>

(***************************************************************************)
(* C23: the range of the power values                                      *)
(***************************************************************************)
VPowerValues ==
    UNION {vDf.rows[k][c] : k \in DOMAIN vDf.rows, c \in PowerCols \cap ColSet(vDf)}

\* C23: a dataframe validate returns has every MW, MVA and MVAr value that
\* is not null within [-1000, 1000], and a dataframe with a power value
\* outside that range is refused by validate.
C23_PowerValuesInRange ==
    vResult # "none"
    => /\ vResult = "ok" => \A x \in VPowerValues : -1000 <= x /\ x <= 1000
       /\ (\E x \in VPowerValues : x < -1000 \/ x > 1000) => vResult # "ok"

\* a dataframe with MW at the upper end and MVA at the lower end of the
\* range, and a null MVAr, has been returned
C23_Witness ==
    /\ vResult = "ok"
    /\ Len(vDf.rows) = MaxVRows
    /\ vDf.rows[1].MW = {1000}
    /\ vDf.rows[1].MVA = {-1000}
    /\ "MVAr" \in ColSet(vDf) /\ vDf.rows[1].MVAr = NULL

(***************************************************************************)
(* C24: the lookup of the catalog resource                                 *)
(***************************************************************************)
CsvCandidates == SelectSeq(cCandidates, IsCsv)

\* C24: on both loaders a table is returned only when exactly one candidate
\* is a CSV resource, and when none or several are (or the list of
\* candidates is empty) the loader raises; the first of several matches is
\* never taken.
C24_ExactlyOneMatch ==
    cPc = "end"
    => /\ cResult.kind = "returned" => Len(CsvCandidates) = 1
       /\ Len(CsvCandidates) # 1 => cResult.kind = "raised"

(***************************************************************************)
(* C25, C26: what _process_region_from_disk yields                         *)
(***************************************************************************)
CheckResults == SelectSeq(yielded, LAMBDA e : e.kind = "AssetCheckResult")
FailedFiles == {i \in DOMAIN csv_files : ~ReadOnDisk(csv_files[i]).ok}

\* C25: the substation_integrity check of a region passes exactly when no
\* file failed; its failed_count is the number of files that raised, its
\* total_substations the number of files processed, and errors_by_substation
\* has one entry for each file that raised, under the substation name of the
\* file, with the message of its exception.  A result of the streaming
\* download without a dataframe names its substation and carries the message.
C25_FailuresNameFileAndReason ==
    /\ bMode = "disk" /\ bPc \in {"output", "done"} =>
          /\ Len(CheckResults) = 1
          /\ CheckResults[1].passed <=> FailedFiles = {}
          /\ CheckResults[1].failed_count = Cardinality(FailedFiles)
          /\ CheckResults[1].total_substations = Len(csv_files)
          /\ DOMAIN CheckResults[1].errors_by_substation = {csv_files[i] : i \in FailedFiles}
          /\ \A i \in FailedFiles :
                CheckResults[1].errors_by_substation[csv_files[i]]
                    = <<ReadOnDisk(csv_files[i]).err>>
    /\ bMode = "stream" =>
          \A k \in DOMAIN stResults :
              /\ stResults[k].substation_name = bResources[stFetched[k].index].name
              /\ stResults[k].df = {} <=> Len(stResults[k].errors) = 1

\* two files of a region raised, for different reasons
C25_Witness ==
    /\ bMode = "disk" /\ bPc = "done"
    /\ Len(csv_files) = 2
    /\ FailedFiles = {1, 2}
    /\ ReadOnDisk(csv_files[1]).err # ReadOnDisk(csv_files[2]).err
    /\ ~CheckResults[1].passed
    /\ CheckResults[1].failed_count = 2

\* C26: _process_region_from_disk yields one observation for each file, in
\* the order of the files, then one substation_integrity check result, then
\* one Output, and nothing else, whichever files raise; when no file gave
\* rows the Output is the empty frame with the columns of the schema.
C26_ObservationsCheckOutput ==
    bMode = "disk" /\ bPc \in {"process", "output", "done"} =>
        /\ \A k \in DOMAIN yielded :
              /\ k <= Len(csv_files) =>
                    yielded[k].kind = "AssetObservation" /\ yielded[k].substation = csv_files[k]
              /\ k = Len(csv_files) + 1 => yielded[k].kind = "AssetCheckResult"
              /\ k = Len(csv_files) + 2 => yielded[k].kind = "Output"
        /\ bPc = "output" => Len(yielded) = Len(csv_files) + 1
        /\ bPc = "done" =>
              /\ Len(yielded) = Len(csv_files) + 2
              /\ Cardinality(bOutput) = 1
              /\ (\A i \in DOMAIN csv_files :
                      ~ReadOnDisk(csv_files[i]).ok \/ ReadOnDisk(csv_files[i]).df.rows = <<>>)
                    => bOutput = {EmptyFrame}

\* a region of two files, one that raised and one without rows: two
\* observations, the check, and the empty frame as the Output
C26_Witness ==
    /\ bMode = "disk" /\ bPc = "done"
    /\ Len(csv_files) = 2
    /\ \E i, j \in DOMAIN csv_files :
          /\ ~ReadOnDisk(csv_files[i]).ok
          /\ ReadOnDisk(csv_files[j]).ok /\ ReadOnDisk(csv_files[j]).df.rows = <<>>
    /\ Len(yielded) = 4
    /\ bOutput = {EmptyFrame}

(***************************************************************************)
(* C27: files already on disk                                              *)
(***************************************************************************)
\* C27: a pass of the loop of _download_raw_csvs_for_region downloads the
\* resource exactly when no file is at <substation_name>.csv; no step of any
\* run changes a file that exists, so of two resources with one substation
\* name only the first is downloaded.
C27_DownloadIffNoFile ==
    [][/\ \A n \in Names : bDisk[n] # {} => bDisk'[n] = bDisk[n]
       /\ (bPc = "download" /\ dlIdx' = dlIdx + 1)
            => (bDisk' # bDisk <=> bDisk[dlList[dlIdx].name] = {})]_vars

\* two resources with one substation name: the loop has passed both, and the
\* file is there
C27_Witness ==
    /\ bMode = "disk" /\ bPc = "download"
    /\ Len(dlList) = 2 /\ dlIdx = 3
    /\ dlList[1].name = dlList[2].name
    /\ bDisk[dlList[1].name] # {}
    /\ \A n \in Names \ {dlList[1].name} : bDisk[n] = {}

====
